---- MODULE Spec2Model ----
(***************************************************************************)
(* Leaderboard service: the ranked index (skip list with span counters),   *)
(* the per-game window leaderboard, the asynchronous score producer and    *)
(* the batch consumer.  Each subsystem has its own specification over the  *)
(* shared variables; a specification leaves the other subsystems' state    *)
(* untouched.                                                              *)
(***************************************************************************)
EXTENDS Integers, Sequences, FiniteSets, Bags, TLC

\* ------------------------------------------------------------------------
\* Bounds of the model
\* ------------------------------------------------------------------------
\* the number of distinct score records (score, timestamp) submitted
MaxValue == 3
\* the capacity of the producer's channel (20000 in NewKafkaProducer)
QueueCap == 2
\* the producer's batch size (5000 in NewKafkaProducer)
ProducerBatchSize == 2
\* the number of scores submitted to the producer
MaxScores == 3
\* the consumer's batch size (cfg.Kafka.BatchSize)
ConsumerBatchSize == 2
\* the number of messages that reach the topic
MaxTopic == 3
\* the number of disturbances of the consumer (a failed save, fetch or
\* commit, or a shutdown of the service)
MaxFaults == 1

\* the number of rows inserted into the scores table
MaxRows == 3

\* ------------------------------------------------------------------------
\* Program constants
\* ------------------------------------------------------------------------
MaxLevel == 128

\* three users: a forward pointer can span more than one node
Users == {1, 2, 3}
\* the tower heights considered, of the MaxLevel that randomLevel can return
Levels == {h \in {1, 2} : h <= MaxLevel}

\* models.Score as stored in an index: the fields the comparator reads.
\* The records submitted are the first MaxValue of (1,t1), (1,t2), (2,t1),
\* (2,t2), ...: equal scores at two instants, and two scores
Values == {[Score |-> (i + 1) \div 2, Timestamp |-> 1 + ((i + 1) % 2)] : i \in 1..MaxValue}

\* the header node and the nil pointer
Header == 0
Nil == 0 - 1
NodeIds == 1..(2 * Cardinality(Users))

\* ------------------------------------------------------------------------
\* Ranked index: internal/cache/skiplist.go (first SkipList of the file)
\* ------------------------------------------------------------------------

\* models.ScoreCompare: higher score first, then earlier timestamp
ScoreCompare(a, b) ==
    IF a.Score # b.Score
    THEN (IF a.Score > b.Score THEN 0 - 1 ELSE 1)
    ELSE IF a.Timestamp # b.Timestamp
         THEN (IF a.Timestamp < b.Timestamp THEN 0 - 1 ELSE 1)
         ELSE 0

\* the comparator injected into the index by NewGameLeaderboard
compare(a, b) == ScoreCompare(a, b)

\* the values randomLevel can return (within the cap of the model)
randomLevel == Levels

\* NewSkipList: a header with MaxLevel nil forward pointers, level 1
NewSkipList ==
    [length   |-> 0,
     level    |-> 1,
     nodes    |-> (Header :> [Key |-> 0, Value |-> [Score |-> 0, Timestamp |-> 0],
                              Forward |-> [i \in Levels |-> Nil],
                              Span |-> [i \in Levels |-> 0]]),
     mapIndex |-> << >>]

\* Advance, counting one node per hop instead of the hop's span
RECURSIVE MutAdvanceUnitSpan(_, _, _, _, _)
MutAdvanceUnitSpan(nodes, x, i, value, r) ==
    LET f == nodes[x].Forward[i] IN
    IF f # Nil /\ ScoreCompare(nodes[f].Value, value) < 0
    THEN MutAdvanceUnitSpan(nodes, f, i, value, r + 1)
    ELSE [x |-> x, rank |-> r]

\* the inner loop of the three searches: advance along level i from x while
\* the next node's value is strictly better than value, summing the spans
RECURSIVE Advance(_, _, _, _, _)
Advance(nodes, x, i, value, r) ==
    LET f == nodes[x].Forward[i] IN
    IF f # Nil /\ compare(nodes[f].Value, value) < 0
    THEN Advance(nodes, f, i, value, r + nodes[x].Span[i])
    ELSE [x |-> x, rank |-> r]

\* the outer loop: levels i, i-1, ..., 1; acc[i] = [x |-> update[i], rank |-> rank[i]]
RECURSIVE FindPath(_, _, _, _, _, _)
FindPath(nodes, i, x, r, value, acc) ==
    IF i = 0 THEN acc
    ELSE LET a == Advance(nodes, x, i, value, r) IN
         FindPath(nodes, i - 1, a.x, a.rank, value, acc @@ (i :> a))

\* the nodes linked at the base level, in order
RECURSIVE BaseList(_, _)
BaseList(nodes, x) ==
    IF x = Nil THEN << >> ELSE <<x>> \o BaseList(nodes, nodes[x].Forward[1])

Linked(sl) == BaseList(sl.nodes, sl.nodes[Header].Forward[1])

SeqRange(s) == {s[i] : i \in 1..Len(s)}

\* Go's garbage collector: a node referenced neither from the list nor from
\* the map is gone; of a node referenced by the map alone only Key and Value
\* are ever read again.  Node addresses carry no meaning beyond equality, so
\* the index is kept up to renaming: linked nodes are numbered in list order,
\* the nodes held by the map alone after them in key order.
Collect(sl) ==
    LET l       == Linked(sl)
        linked  == SeqRange(l)
        loose   == {k \in DOMAIN sl.mapIndex : sl.mapIndex[k] \notin linked}
        pos(n)  == CHOOSE i \in 1..Len(l) : l[i] = n
        ren(n)  == IF n = Header \/ n = Nil THEN n
                   ELSE IF n \in linked THEN pos(n)
                   ELSE LET k == CHOOSE k \in loose : sl.mapIndex[k] = n
                        IN Len(l) + Cardinality({j \in loose : j <= k})
        old(m)  == CHOOSE n \in {Header} \cup linked \cup {sl.mapIndex[k] : k \in loose} :
                      ren(n) = m
        total   == Len(l) + Cardinality(loose)
    IN [sl EXCEPT
          !.nodes = [m \in {Header} \cup (1..total) |->
                       LET n == old(m) IN
                       IF n \in linked \cup {Header}
                       THEN [sl.nodes[n] EXCEPT
                               !.Forward = [i \in DOMAIN @ |-> ren(@[i])]]
                       ELSE [sl.nodes[n] EXCEPT !.Forward = << >>, !.Span = << >>]],
          !.mapIndex = [k \in DOMAIN @ |-> ren(@[k])]]

\* a fresh node address
NewNodeId(sl) == CHOOSE n \in NodeIds :
                    /\ n \notin DOMAIN sl.nodes
                    /\ \A m \in NodeIds : m < n => m \in DOMAIN sl.nodes

\* insertNode(key, value) with randomLevel() = newLevel
insertNode(sl, key, value, newLevel) ==
    LET path     == FindPath(sl.nodes, sl.level, Header, 0, value, << >>)
        level2   == IF newLevel > sl.level THEN newLevel ELSE sl.level
        \* update[i], rank[i] after the "newLevel > sl.level" block
        update(i) == IF i > sl.level THEN Header ELSE path[i].x
        rank(i)   == IF i > sl.level THEN 0 ELSE path[i].rank
        \* span of update[i] at level i before the linking loop
        oldSpan(i) == IF i > sl.level THEN sl.length ELSE sl.nodes[update(i)].Span[i]
        new      == NewNodeId(sl)
        newNode  == [Key |-> key, Value |-> value,
                     Forward |-> [i \in 1..newLevel |-> sl.nodes[update(i)].Forward[i]],
                     Span    |-> [i \in 1..newLevel |-> oldSpan(i) - (rank(1) - rank(i))]]
        relink(n) ==
            [sl.nodes[n] EXCEPT
               !.Forward = [i \in DOMAIN @ |->
                              IF i <= newLevel /\ update(i) = n THEN new ELSE @[i]],
               !.Span    = [i \in DOMAIN @ |->
                              IF i <= level2 /\ update(i) = n
                              THEN (IF i <= newLevel
                                    THEN (rank(1) - rank(i)) + 1
                                    ELSE oldSpan(i) + 1)
                              ELSE @[i]]]
    IN [length   |-> sl.length + 1,
        level    |-> level2,
        nodes    |-> [n \in DOMAIN sl.nodes \cup {new} |->
                        IF n = new THEN newNode ELSE relink(n)],
        mapIndex |-> [k \in DOMAIN sl.mapIndex \cup {key} |->
                        IF k = key THEN new ELSE sl.mapIndex[k]]]

\* the level-lowering loop at the end of deleteNode
RECURSIVE LowerLevel(_, _)
LowerLevel(hdr, level) ==
    IF level > 1 /\ hdr.Forward[level] = Nil THEN LowerLevel(hdr, level - 1) ELSE level

\* deleteNode that leaves the span of a pointer passing over the deleted node
\* as it was
MutdeleteNodeKeepsSpan(sl, key, value) ==
    LET path == FindPath(sl.nodes, sl.level, Header, 0, value, << >>)
        update(i) == path[i].x
        x == sl.nodes[update(1)].Forward[1]
    IN IF x # Nil /\ compare(sl.nodes[x].Value, value) = 0
       THEN LET unlink(n) ==
                    [sl.nodes[n] EXCEPT
                       !.Forward = [i \in DOMAIN @ |->
                                      IF i <= sl.level /\ update(i) = n /\ @[i] = x
                                      THEN sl.nodes[x].Forward[i] ELSE @[i]],
                       !.Span    = [i \in DOMAIN @ |->
                                      IF i <= sl.level /\ update(i) = n
                                      THEN (IF sl.nodes[n].Forward[i] # x
                                            THEN @[i]
                                            ELSE @[i] + sl.nodes[x].Span[i] - 1)
                                      ELSE @[i]]]
                nodes2 == [n \in DOMAIN sl.nodes |-> unlink(n)]
            IN [sl |-> [length   |-> sl.length - 1,
                        level    |-> LowerLevel(nodes2[Header], sl.level),
                        nodes    |-> nodes2,
                        mapIndex |-> [k \in DOMAIN sl.mapIndex \ {key} |-> sl.mapIndex[k]]],
                ok |-> TRUE]
       ELSE [sl |-> sl, ok |-> FALSE]

\* deleteNode(key, value): [sl |-> the index afterwards, ok |-> the result]
deleteNode(sl, key, value) ==
    LET path == FindPath(sl.nodes, sl.level, Header, 0, value, << >>)
        update(i) == path[i].x
        x == sl.nodes[update(1)].Forward[1]
    IN IF x # Nil /\ compare(sl.nodes[x].Value, value) = 0
       THEN LET unlink(n) ==
                    [sl.nodes[n] EXCEPT
                       !.Forward = [i \in DOMAIN @ |->
                                      IF i <= sl.level /\ update(i) = n /\ @[i] = x
                                      THEN sl.nodes[x].Forward[i] ELSE @[i]],
                       !.Span    = [i \in DOMAIN @ |->
                                      IF i <= sl.level /\ update(i) = n
                                      THEN (IF sl.nodes[n].Forward[i] # x
                                            THEN @[i] - 1
                                            ELSE @[i] + sl.nodes[x].Span[i] - 1)
                                      ELSE @[i]]]
                nodes2 == [n \in DOMAIN sl.nodes |-> unlink(n)]
            IN [sl |-> [length   |-> sl.length - 1,
                        level    |-> LowerLevel(nodes2[Header], sl.level),
                        nodes    |-> nodes2,
                        mapIndex |-> [k \in DOMAIN sl.mapIndex \ {key} |-> sl.mapIndex[k]]],
                ok |-> TRUE]
       ELSE [sl |-> sl, ok |-> FALSE]

\* InsertOrUpdate replacing the stored value whenever the new one differs
MutInsertOrUpdateAnyChange(sl, key, value, newLevel) ==
    IF key \in DOMAIN sl.mapIndex
    THEN LET existingNode == sl.nodes[sl.mapIndex[key]] IN
         IF compare(value, existingNode.Value) # 0
         THEN LET d == deleteNode(sl, existingNode.Key, existingNode.Value) IN
              [sl |-> Collect(insertNode(d.sl, key, value, newLevel)), ok |-> TRUE]
         ELSE [sl |-> sl, ok |-> FALSE]
    ELSE [sl |-> Collect(insertNode(sl, key, value, newLevel)), ok |-> TRUE]

\* InsertOrUpdate replacing the stored value also when the new one is equal
MutInsertOrUpdateOnEqual(sl, key, value, newLevel) ==
    IF key \in DOMAIN sl.mapIndex
    THEN LET existingNode == sl.nodes[sl.mapIndex[key]] IN
         IF compare(value, existingNode.Value) <= 0
         THEN LET d == deleteNode(sl, existingNode.Key, existingNode.Value) IN
              [sl |-> Collect(insertNode(d.sl, key, value, newLevel)), ok |-> TRUE]
         ELSE [sl |-> sl, ok |-> FALSE]
    ELSE [sl |-> Collect(insertNode(sl, key, value, newLevel)), ok |-> TRUE]

\* InsertOrUpdate(key, value): [sl, ok]; newLevel is what randomLevel returns
\* if the call reaches insertNode
InsertOrUpdate(sl, key, value, newLevel) ==
    IF key \in DOMAIN sl.mapIndex
    THEN LET existingNode == sl.nodes[sl.mapIndex[key]] IN
         IF compare(value, existingNode.Value) < 0
         THEN LET d == deleteNode(sl, existingNode.Key, existingNode.Value) IN
              [sl |-> Collect(insertNode(d.sl, key, value, newLevel)), ok |-> TRUE]
         ELSE [sl |-> sl, ok |-> FALSE]
    ELSE [sl |-> Collect(insertNode(sl, key, value, newLevel)), ok |-> TRUE]

\* Delete(key): [sl, ok]
Delete(sl, key) ==
    IF key \notin DOMAIN sl.mapIndex
    THEN [sl |-> sl, ok |-> FALSE]
    ELSE LET node == sl.nodes[sl.mapIndex[key]]
             d    == deleteNode(sl, node.Key, node.Value)
         IN [sl |-> Collect(d.sl), ok |-> d.ok]

\* Search(key): [value, found]
Search(sl, key) ==
    IF key \notin DOMAIN sl.mapIndex
    THEN [value |-> [Score |-> 0, Timestamp |-> 0], found |-> FALSE]
    ELSE [value |-> sl.nodes[sl.mapIndex[key]].Value, found |-> TRUE]

\* GetRank(key): [rank, found]
GetRank(sl, key) ==
    IF key \notin DOMAIN sl.mapIndex
    THEN [rank |-> 0, found |-> FALSE]
    ELSE LET node == sl.nodes[sl.mapIndex[key]]
             path == FindPath(sl.nodes, sl.level, Header, 0, node.Value, << >>)
         IN [rank |-> path[1].rank + 1, found |-> TRUE]

\* GetTopK(k): the first k base-level nodes as Entry{Key, Value, Rank}
GetTopK(sl, k) ==
    LET l == Linked(sl)
        n == IF k < Len(l) THEN k ELSE Len(l)
    IN [i \in 1..n |-> [Key |-> sl.nodes[l[i]].Key,
                        Value |-> sl.nodes[l[i]].Value,
                        Rank |-> i]]

\* GetLength of an index whose length lags one insert behind
MutGetLengthLags(sl) == sl.length - 1

GetLength(sl) == sl.length

\* ------------------------------------------------------------------------
\* Window leaderboard: GameLeaderboard (internal/cache/skiplist_test.go holds
\* the store package's leaderboard.go) and models.TimeWindow
\* ------------------------------------------------------------------------

\* models.AllTimeWindows, by GetLeaderboardIndex: the Hours of each window
AllTimeWindows == <<0, 24, 72, 168>>
LeaderboardIndexCount == 4
Windows == 1..LeaderboardIndexCount

\* the instants (in hours) the clock and the score timestamps range over:
\* the start, one day and seven days later, so that a timestamp
\* can lie inside every window, on the 24h horizon, between the horizons of
\* 24h and 7d, and on the 7d horizon
Instants == {0, AllTimeWindows[2], AllTimeWindows[4]}

\* the users and scores of the game, and the tower heights of its four indexes
BoardUsers == {1, 2}
BoardScores == {1, 2}
BoardLevels == {h \in randomLevel : h = 1}

\* getCutoffTime(window) at clock t (AllTime: the zero time, before every instant)
getCutoffTime(w, t) ==
    IF AllTimeWindows[w] > 0 THEN t - AllTimeWindows[w] ELSE 0 - 1

\* isScoreValid taking a timestamp on the cutoff for valid (!Before for After)
MutisScoreValidOnCutoff(w, timestamp, t) ==
    IF AllTimeWindows[w] = 0 THEN TRUE
    ELSE timestamp >= getCutoffTime(w, t)

\* isScoreValid with Before for After: the timestamps older than the cutoff
MutisScoreValidBefore(w, timestamp, t) ==
    IF AllTimeWindows[w] = 0 THEN TRUE
    ELSE timestamp < getCutoffTime(w, t)

\* isScoreValid(window, timestamp) at clock t: timestamp.After(cutoff)
isScoreValid(w, timestamp, t) ==
    IF AllTimeWindows[w] = 0 THEN TRUE
    ELSE timestamp > getCutoffTime(w, t)

\* NewGameLeaderboard
NewGameLeaderboard == [w \in Windows |-> NewSkipList]

\* GameLeaderboard.AddScore(userID, score, timestamp) at clock t; lv[w] is the
\* height randomLevel returns in window w's index
RECURSIVE AddScoreFrom(_, _, _, _, _, _, _)
AddScoreFrom(gl, w, userID, score, timestamp, t, lv) ==
    IF w > LeaderboardIndexCount THEN gl
    ELSE LET newScore == [Score |-> score, Timestamp |-> timestamp]
             gl2 == IF ~isScoreValid(w, timestamp, t) THEN gl
                    ELSE [gl EXCEPT ![w] = InsertOrUpdate(@, userID, newScore, lv[w]).sl]
         IN AddScoreFrom(gl2, w + 1, userID, score, timestamp, t, lv)

\* AddScore that first drops, from every windowed index, the entries whose
\* timestamp has left the window
MutAddScoreCompacts(gl, userID, score, timestamp, t, lv) ==
    LET drop(index, w, u) ==
            IF Search(index, u).found
               /\ ~isScoreValid(w, Search(index, u).value.Timestamp, t)
            THEN Delete(index, u).sl ELSE index
        compacted == [w \in Windows |-> drop(drop(gl[w], w, 1), w, 2)]
    IN AddScoreFrom(compacted, 1, userID, score, timestamp, t, lv)

AddScore(gl, userID, score, timestamp, t, lv) ==
    AddScoreFrom(gl, 1, userID, score, timestamp, t, lv)

\* GameLeaderboard.GetTopK(k, window): LeaderboardEntry{UserID, Score, Rank}
GLGetTopK(gl, k, w) ==
    LET entries == GetTopK(gl[w], k)
    IN [i \in 1..Len(entries) |-> [UserID |-> entries[i].Key,
                                   Score |-> entries[i].Value.Score,
                                   Rank |-> entries[i].Rank]]

\* GameLeaderboard.GetRankAndPercentile(userID, window); the percentile
\* 100.0 * float64(total-rank) / float64(total) is kept as the exact fraction
\* pctNum / pctDen
GetRankAndPercentile(gl, userID, w) ==
    LET r == GetRank(gl[w], userID)
        scoreKey == Search(gl[w], userID)
        total == GetLength(gl[w])
    IN IF ~r.found \/ ~scoreKey.found
       THEN [rank |-> 0, pctNum |-> 0, pctDen |-> 1, score |-> 0, total |-> 0, found |-> FALSE]
       ELSE [rank |-> r.rank, pctNum |-> 100 * (total - r.rank), pctDen |-> total,
             score |-> scoreKey.value.Score, total |-> total, found |-> TRUE]

\* GameLeaderboard.TotalPlayers(window)
TotalPlayers(gl, w) == GetLength(gl[w])

\* ------------------------------------------------------------------------
\* State
\* ------------------------------------------------------------------------
VARIABLES
    sl,      \* one ranked index
    best,    \* per user, the best value upserted since the user was last absent
    boards,  \* one game's window leaderboard: the four indexes
    now,     \* the clock (time.Now), in hours
    \* -- KafkaProducer --
    connected,  \* p.connected
    scoreChan,  \* p.scoreChan, the buffered channel
    batch,      \* the worker's local batch
    pctxDone,   \* p.ctx is cancelled
    worker,     \* the batch processor goroutine: "running" or "exited"
    written,    \* the scores handed to the broker writer by WriteMessages, in order
    sending,    \* per caller, the score of a SendScore call past its connected check (0: none)
    result,     \* per caller, the score and the outcome of its last SendScore call
    accepted,   \* scores for which SendScore returned nil
    atClose,    \* the scores accepted when Close was called
    closing,    \* Close: "no", "waiting" (in wg.Wait) or "returned"
    nextScore,  \* the next score to be submitted
    \* -- KafkaConsumer and the broker topic --
    topic,      \* the messages of the topic: TRUE for one that decodes, FALSE for a poison one
    position,   \* the reader's fetch offset
    committed,  \* the consumer group's committed offset
    cbatch,     \* processBatch's local batch (offsets of the messages)
    cstate,     \* the consumer goroutine: "loop", "collect", "sleep" or "stopped"
    cctxDone,   \* the consumer's context is cancelled
    durable,    \* messages written to durable storage
    cached,     \* messages applied to the cache
    handed,     \* messages of the batches passed to saveBatch
    faults,     \* disturbances so far (failed save, fetch or commit, shutdown)
    \* -- Store, its database and the HTTP handlers --
    leaderboards,  \* ls.leaderboards: game id -> window leaderboard
    rows,          \* the rows of the scores table: a bag (the id column apart)
    response,      \* the HTTP status of the last response (0: none yet)
    loading,       \* games whose CacheGameLeaderboard goroutine has not run yet
    initReturned,  \* InitializeFromDatabase has returned
    \* -- the locks of the store and of the window leaderboards --
    pc,    \* per goroutine, the call it is inside (at) and its argument
    mu,    \* Store.mu: the goroutine holding it (0: free)
    lbmu,  \* per window, LeaderBoard.mu: the goroutine holding it (0: free)
    slmu   \* per window, the index's SkipList.mu: the goroutine holding it (0: free)

idxVars == <<sl, best>>
boardVars == <<boards, now>>
prodVars == <<connected, scoreChan, batch, pctxDone, worker, written, sending,
              result, accepted, atClose, closing, nextScore>>
consVars == <<topic, position, committed, cbatch, cstate, cctxDone, durable,
              cached, handed, faults>>
storeVars == <<leaderboards, rows, response, loading, initReturned>>
lockVars == <<pc, mu, lbmu, slmu>>
vars == <<idxVars, boardVars, prodVars, consVars, storeVars, lockVars>>

NoValue == [Score |-> 0, Timestamp |-> 0]

\* the better of two values under the comparator
Better(a, b) == IF a = NoValue THEN b
                ELSE IF compare(b, a) < 0 THEN b ELSE a

IdleIndex ==
    /\ sl = NewSkipList
    /\ best = [u \in Users |-> NoValue]

IdleBoard ==
    /\ boards = NewGameLeaderboard
    /\ now = 0

\* the callers of SendScore
Senders == {1, 2}
NoCall == [score |-> 0, ret |-> "none"]

\* the producer as NewKafkaProducer returns it: connected, worker started
IdleProducer ==
    /\ connected = TRUE
    /\ scoreChan = << >>
    /\ batch = << >>
    /\ pctxDone = FALSE
    /\ worker = "running"
    /\ written = << >>
    /\ sending = [s \in Senders |-> 0]
    /\ result = [s \in Senders |-> NoCall]
    /\ accepted = {}
    /\ atClose = {}
    /\ closing = "no"
    /\ nextScore = 1

\* the store as NewStore returns it, over an empty scores table
IdleStore ==
    /\ leaderboards = << >>
    /\ rows = EmptyBag
    /\ response = 0
    /\ loading = {}
    /\ initReturned = FALSE

\* the goroutines that call into the store, and a goroutine inside no call
Goroutines == {1, 2}
AtRest == [at |-> "idle", arg |-> 0, step |-> 0]

\* no goroutine inside the store, every lock free
IdleLocks ==
    /\ pc = [p \in Goroutines |-> AtRest]
    /\ mu = 0
    /\ lbmu = [w \in Windows |-> 0]
    /\ slmu = [w \in Windows |-> 0]

\* the consumer as StartConsumer starts it, on an empty topic
IdleConsumer ==
    /\ topic = << >>
    /\ position = 0
    /\ committed = 0
    /\ cbatch = << >>
    /\ cstate = "loop"
    /\ cctxDone = FALSE
    /\ durable = {}
    /\ cached = {}
    /\ handed = {}
    /\ faults = 0

\* ------------------------------------------------------------------------
\* Specification of the ranked index
\* ------------------------------------------------------------------------
InitIndex == IdleIndex /\ IdleBoard /\ IdleProducer /\ IdleConsumer /\ IdleStore /\ IdleLocks

SLInsertOrUpdate(key, value, newLevel) ==
    /\ sl' = InsertOrUpdate(sl, key, value, newLevel).sl
    /\ best' = [best EXCEPT ![key] = Better(@, value)]
    /\ UNCHANGED <<boardVars, prodVars, consVars, storeVars, lockVars>>

SLDelete(key) ==
    /\ sl' = Delete(sl, key).sl
    /\ best' = [best EXCEPT ![key] = IF key \in DOMAIN sl'.mapIndex THEN @ ELSE NoValue]
    /\ UNCHANGED <<boardVars, prodVars, consVars, storeVars, lockVars>>

NextIndex ==
    \/ \E key \in Users, value \in Values, newLevel \in randomLevel :
          SLInsertOrUpdate(key, value, newLevel)
    \/ \E key \in Users : SLDelete(key)

SpecIndex == InitIndex /\ [][NextIndex]_vars

\* ---- properties of the ranked index ----
TopAll == GetTopK(sl, GetLength(sl))
LinkedNode(i) == sl.nodes[Linked(sl)[i]]
MinOf(a, b) == IF a < b THEN a ELSE b

\* C1: after any sequence of upserts and deletes, the ordered list holds at
\* most one entry per user: top_k(size) never lists the same user twice.
CxC1 == \A i, j \in 1..Len(TopAll) : i # j => TopAll[i].Key # TopAll[j].Key

\* C2: for any sequence of upserts for a user, lookup returns the best value
\* upserted for that user: a strictly better value replaces the stored one,
\* an equal or worse one leaves it unchanged.
ThmC2 == \A u \in Users :
            best[u] # NoValue => Search(sl, u) = [value |-> best[u], found |-> TRUE]

\* a user whose lookup returns a record strictly better than an earlier record
\* of the same user (still to be seen in the ordered list)
WitC2 == \E u \in Users :
            /\ best[u] # NoValue
            /\ Search(sl, u).value = best[u]
            /\ \E i \in 1..Len(Linked(sl)) :
                  /\ LinkedNode(i).Key = u
                  /\ compare(best[u], LinkedNode(i).Value) < 0

\* C3: top_k(k) returns exactly min(k, size) entries in best-first order with
\* ranks 1, 2, ..., and top_k(size) lists every user of the index exactly once.
CxC3 ==
    /\ \A k \in 0..(Cardinality(Users) + 1) :
          LET top == GetTopK(sl, k) IN
          /\ Len(top) = MinOf(k, GetLength(sl))
          /\ \A i \in 1..Len(top) : top[i].Rank = i
          /\ \A i \in 1..(Len(top) - 1) : compare(top[i + 1].Value, top[i].Value) >= 0
    /\ {TopAll[i].Key : i \in 1..Len(TopAll)} = DOMAIN sl.mapIndex
    /\ Len(TopAll) = Cardinality(DOMAIN sl.mapIndex)

\* C4: for every user of the index rank(u) is 1 + the number of entries whose
\* value is strictly better than the user's stored value (counted over the
\* users of the index, and over the nodes of the ordered list); for a user not
\* in the index rank returns absent.
ThmC4 == \A u \in Users :
            IF u \in DOMAIN sl.mapIndex
            THEN LET mine == Search(sl, u).value IN
                 /\ GetRank(sl, u).found
                 /\ GetRank(sl, u).rank =
                      1 + Cardinality({w \in DOMAIN sl.mapIndex :
                                         compare(Search(sl, w).value, mine) < 0})
                 /\ GetRank(sl, u).rank =
                      1 + Cardinality({i \in 1..Len(Linked(sl)) :
                                         compare(LinkedNode(i).Value, mine) < 0})
            ELSE ~GetRank(sl, u).found

\* a user ranked third in an index with towers of height two, next to a user
\* that is not in the index
WitC4 == /\ sl.level = 2
         /\ \E u \in Users : GetRank(sl, u).rank = 3

\* ------------------------------------------------------------------------
\* Specification of the window leaderboard
\* ------------------------------------------------------------------------
InitBoard == IdleIndex /\ IdleBoard /\ IdleProducer /\ IdleConsumer /\ IdleStore /\ IdleLocks

GLAddScore(userID, score, timestamp, lv) ==
    /\ boards' = AddScore(boards, userID, score, timestamp, now, lv)
    /\ UNCHANGED <<now, idxVars, prodVars, consVars, storeVars, lockVars>>

\* the clock advances
Tick ==
    /\ \E t \in Instants : t > now /\ now' = t
    /\ UNCHANGED <<boards, idxVars, prodVars, consVars, storeVars, lockVars>>

NextBoard ==
    \/ \E userID \in BoardUsers, score \in BoardScores, timestamp \in Instants,
          lv \in [Windows -> BoardLevels] :
          GLAddScore(userID, score, timestamp, lv)
    \/ Tick

SpecBoard == InitBoard /\ [][NextBoard]_vars

\* ---- properties of the window leaderboard ----
AllTimeIdx == 1
Events == [user : BoardUsers, score : BoardScores, timestamp : Instants]
Heights == [Windows -> BoardLevels]
Record(e) == [Score |-> e.score, Timestamp |-> e.timestamp]
Add(gl, e, t, lv) == AddScore(gl, e.user, e.score, e.timestamp, t, lv)
\* "timestamp is later than now - W.hours", now being t
LaterThanHorizon(w, timestamp, t) == timestamp > t - AllTimeWindows[w]
\* the index holds for the user a record at least as good as r
HoldsAtLeast(index, user, r) ==
    /\ Search(index, user).found
    /\ compare(Search(index, user).value, r) <= 0

\* C5: for a user found at rank r in a window index of n > 0 players,
\* rank_and_percentile returns percentile = 100*(n - r + 1)/n.
CxC5 == \A w \in Windows, u \in BoardUsers :
           LET q == GetRankAndPercentile(boards, u, w) IN
           q.found => q.pctNum * q.total = 100 * (q.total - q.rank + 1) * q.pctDen

\* C6: add_score(u, s, ts) changes window W's index only if W is the all-time
\* window or ts is later than now - W.hours at the time of the call (and then
\* the index holds a record of u at least as good); a score older than W's
\* horizon does not enter W's index but still enters the all-time index.
ThmC6 == \A e \in Events, lv \in Heights :
            LET after == Add(boards, e, now, lv) IN
            /\ HoldsAtLeast(after[AllTimeIdx], e.user, Record(e))
            /\ \A w \in Windows \ {AllTimeIdx} :
                  IF LaterThanHorizon(w, e.timestamp, now)
                  THEN HoldsAtLeast(after[w], e.user, Record(e))
                  ELSE after[w] = boards[w]

\* a user whose only scores were older than every windowed horizon when they
\* arrived: in the all-time index and in no other
WitC6 == \E u \in BoardUsers :
            /\ Search(boards[AllTimeIdx], u).found
            /\ \A w \in Windows \ {AllTimeIdx} : ~Search(boards[w], u).found

\* what every submission of e up to now has left behind: a record of the user
\* at least as good as e in the all-time index and in every window whose
\* horizon e's timestamp is still inside
Submitted(e) ==
    \A w \in Windows :
       (w = AllTimeIdx \/ LaterThanHorizon(w, e.timestamp, now))
          => HoldsAtLeast(boards[w], e.user, Record(e))

\* C7: submitting the same (user, score, timestamp) to add_score a second
\* time leaves every window index unchanged: a submission of e leaves
\* Submitted(e) true, no later step makes it false, and where it is true
\* add_score of e changes nothing.
ThmC7 ==
    /\ [](\A e \in Events : Submitted(e) =>
              \A lv \in Heights : Add(boards, e, now, lv) = boards)
    /\ [][\A e \in Events :
             /\ Submitted(e) => Submitted(e)'
             /\ (\E lv \in Heights : boards' = Add(boards, e, now, lv) /\ now' = now)
                   => Submitted(e)']_vars

\* an event held by every window's index, next to another user's record equal
\* to it under the comparator, and submitting it again changes nothing
WitC7 == \E e \in Events, lv \in Heights :
            /\ \A w \in Windows : Search(boards[w], e.user).value = Record(e)
            /\ \E u \in BoardUsers \ {e.user} :
                  Search(boards[AllTimeIdx], u).value = Record(e)
            /\ Add(boards, e, now, lv) = boards

\* ------------------------------------------------------------------------
\* Specification of the producer
\* ------------------------------------------------------------------------
InitProducer == IdleIndex /\ IdleBoard /\ IdleProducer /\ IdleConsumer /\ IdleStore /\ IdleLocks

\* a send on the buffered channel that overfills it
MutTrySendUnbounded(ch, score) == [ch |-> Append(ch, score), ok |-> TRUE]

\* select { case p.scoreChan <- score: ... default: ... }
TrySend(ch, score) ==
    IF Len(ch) < QueueCap
    THEN [ch |-> Append(ch, score), ok |-> TRUE]
    ELSE [ch |-> ch, ok |-> FALSE]

\* SendScore up to its connected check (the flag is read under the read lock,
\* the channel send comes after the lock is released)
SendScoreCheck(s) ==
    /\ sending[s] = 0
    /\ nextScore <= MaxScores
    /\ nextScore' = nextScore + 1
    /\ IF connected
       THEN /\ sending' = [sending EXCEPT ![s] = nextScore]
            /\ result' = [result EXCEPT ![s] = [score |-> nextScore, ret |-> "pending"]]
       ELSE /\ sending' = sending
            /\ result' = [result EXCEPT ![s] = [score |-> nextScore, ret |-> "not connected"]]
    /\ UNCHANGED <<connected, scoreChan, batch, pctxDone, worker, written,
                   accepted, atClose, closing>>
    /\ UNCHANGED <<idxVars, boardVars, consVars, storeVars, lockVars>>

\* SendScore's select
SendScoreSelect(s) ==
    /\ sending[s] # 0
    /\ LET sent == TrySend(scoreChan, sending[s]) IN
       /\ scoreChan' = sent.ch
       /\ result' = [result EXCEPT ![s] =
                        [score |-> sending[s],
                         ret |-> IF sent.ok THEN "ok" ELSE "queue full"]]
       /\ accepted' = IF sent.ok THEN accepted \cup {sending[s]} ELSE accepted
    /\ sending' = [sending EXCEPT ![s] = 0]
    /\ UNCHANGED <<connected, batch, pctxDone, worker, written, atClose,
                   closing, nextScore>>
    /\ UNCHANGED <<idxVars, boardVars, consVars, storeVars, lockVars>>

\* a flush that hands the batch to the writer twice
MutflushBatchTwice(scores, delivered) ==
    IF delivered THEN written \o scores \o scores ELSE written

\* flushBatch: WriteMessages under a context derived from p.ctx; delivered
\* says whether the writer took the messages
flushBatch(scores, delivered) ==
    IF delivered THEN written \o scores ELSE written

\* what WriteMessages can do: with p.ctx live it takes the batch; with p.ctx
\* cancelled it may take it or fail on the cancelled context
FlushOutcomes == IF pctxDone THEN BOOLEAN ELSE {TRUE}

\* the worker's select, case score := <-p.scoreChan
WorkerReceive ==
    /\ worker = "running"
    /\ scoreChan # << >>
    /\ scoreChan' = Tail(scoreChan)
    /\ LET grown == Append(batch, Head(scoreChan)) IN
       IF Len(grown) >= ProducerBatchSize
       THEN /\ \E delivered \in FlushOutcomes : written' = flushBatch(grown, delivered)
            /\ batch' = << >>
       ELSE /\ batch' = grown
            /\ written' = written
    /\ UNCHANGED <<connected, pctxDone, worker, sending, result, accepted,
                   atClose, closing, nextScore>>
    /\ UNCHANGED <<idxVars, boardVars, consVars, storeVars, lockVars>>

\* the worker's select, case <-ticker.C
WorkerTick ==
    /\ worker = "running"
    /\ Len(batch) > 0
    /\ \E delivered \in FlushOutcomes : written' = flushBatch(batch, delivered)
    /\ batch' = << >>
    /\ UNCHANGED <<connected, scoreChan, pctxDone, worker, sending, result,
                   accepted, atClose, closing, nextScore>>
    /\ UNCHANGED <<idxVars, boardVars, consVars, storeVars, lockVars>>

\* the worker's select, case <-p.ctx.Done(): flush the batch and return
WorkerCtxDone ==
    /\ worker = "running"
    /\ pctxDone
    /\ IF Len(batch) > 0
       THEN \E delivered \in FlushOutcomes : written' = flushBatch(batch, delivered)
       ELSE written' = written
    /\ batch' = << >>
    /\ worker' = "exited"
    /\ UNCHANGED <<connected, scoreChan, pctxDone, sending, result, accepted,
                   atClose, closing, nextScore>>
    /\ UNCHANGED <<idxVars, boardVars, consVars, storeVars, lockVars>>

\* Close up to wg.Wait: connected = false, cancel
ProducerClose ==
    /\ closing = "no"
    /\ connected' = FALSE
    /\ pctxDone' = TRUE
    /\ closing' = "waiting"
    /\ atClose' = accepted
    /\ UNCHANGED <<scoreChan, batch, worker, written, sending, result,
                   accepted, nextScore>>
    /\ UNCHANGED <<idxVars, boardVars, consVars, storeVars, lockVars>>

\* Close that does not wait for the worker
MutProducerCloseReturnNoWait ==
    /\ closing = "waiting"
    /\ closing' = "returned"
    /\ UNCHANGED <<connected, scoreChan, batch, pctxDone, worker, written,
                   sending, result, accepted, atClose, nextScore>>
    /\ UNCHANGED <<idxVars, boardVars, consVars, storeVars, lockVars>>

\* Close from wg.Wait on: the worker has returned, the writer is closed
ProducerCloseReturn ==
    /\ closing = "waiting"
    /\ worker = "exited"
    /\ closing' = "returned"
    /\ UNCHANGED <<connected, scoreChan, batch, pctxDone, worker, written,
                   sending, result, accepted, atClose, nextScore>>
    /\ UNCHANGED <<idxVars, boardVars, consVars, storeVars, lockVars>>

NextProducer ==
    \/ \E s \in Senders : SendScoreCheck(s)
    \/ \E s \in Senders : SendScoreSelect(s)
    \/ WorkerReceive
    \/ WorkerTick
    \/ WorkerCtxDone
    \/ ProducerClose
    \/ ProducerCloseReturn

SpecProducer == InitProducer /\ [][NextProducer]_vars

\* the worker goroutine keeps running its select loop: a score in the
\* channel is received, the ticker fires every flush interval and a
\* cancelled context is noticed; wg.Wait returns once the worker is done
FairProducer ==
    /\ WF_vars(WorkerReceive)
    /\ WF_vars(WorkerTick)
    /\ WF_vars(WorkerCtxDone)
    /\ WF_vars(ProducerCloseReturn)

SpecProducerFair == SpecProducer /\ FairProducer

\* ---- properties of the producer ----
\* caller s's SendScore call returns in this step
Returns(s) == result'[s] # result[s] /\ result'[s].ret # "pending"
HasRoom == Len(scoreChan) < QueueCap

\* C9: submit never blocks: with room in the queue the event is enqueued and
\* ok is returned, with the queue full QueueFull is returned and nothing is
\* enqueued; the queue is never longer than its capacity.
CxC9 ==
    /\ [](/\ Len(scoreChan) <= QueueCap
          /\ \A s \in Senders : sending[s] # 0 => ENABLED SendScoreSelect(s))
    /\ [][\A s \in Senders : Returns(s) =>
             IF HasRoom
             THEN /\ result'[s].ret = "ok"
                  /\ scoreChan' = Append(scoreChan, result'[s].score)
             ELSE /\ result'[s].ret = "queue full"
                  /\ scoreChan' = scoreChan]_vars

\* C9 (amended): submit never blocks: a call that finds the producer not
\* connected returns "not connected" and enqueues nothing; a call that finds
\* it connected enqueues the event and returns ok if the queue has room, and
\* returns QueueFull and enqueues nothing if it is full; the queue is never
\* longer than its capacity.
ThmC9 ==
    /\ [](/\ Len(scoreChan) <= QueueCap
          /\ \A s \in Senders : sending[s] # 0 => ENABLED SendScoreSelect(s))
    /\ [][\A s \in Senders :
             /\ (result'[s] # result[s] /\ result'[s].ret = "pending") => connected
             /\ Returns(s) =>
                  IF result[s].ret # "pending"
                  THEN /\ ~connected
                       /\ result'[s].ret = "not connected"
                       /\ scoreChan' = scoreChan
                  ELSE IF HasRoom
                  THEN /\ result'[s].ret = "ok"
                       /\ scoreChan' = Append(scoreChan, result'[s].score)
                  ELSE /\ result'[s].ret = "queue full"
                       /\ scoreChan' = scoreChan]_vars

\* a call turned away by a full queue next to a call that was accepted
WitC9 ==
    /\ Len(scoreChan) = QueueCap
    /\ \E s1, s2 \in Senders :
          /\ result[s1].ret = "queue full"
          /\ result[s2].ret = "ok"

\* C10: when Close has returned, every event that submit had accepted when
\* Close was called has been handed to the broker writer.
CxC10 == closing = "returned" => atClose \subseteq SeqRange(written)

\* ------------------------------------------------------------------------
\* Specification of the consumer
\* ------------------------------------------------------------------------
InitConsumer == IdleIndex /\ IdleBoard /\ IdleProducer /\ IdleConsumer /\ IdleStore /\ IdleLocks

\* a message reaches the topic; decodes says whether its payload is a score
Publish(decodes) ==
    /\ Len(topic) < MaxTopic
    /\ topic' = Append(topic, decodes)
    /\ UNCHANGED <<position, committed, cbatch, cstate, cctxDone, durable,
                   cached, handed, faults>>
    /\ UNCHANGED <<idxVars, boardVars, prodVars, storeVars, lockVars>>

\* Store.SaveScoreBatch: the database first, the cache only if that succeeded
SaveScoreBatch(scores, saved) ==
    IF saved
    THEN [durable |-> durable \cup SeqRange(scores),
          cached |-> cached \cup SeqRange(scores)]
    ELSE [durable |-> durable, cached |-> cached]

\* what the database can do with a batch: fail while failures remain
SaveOutcomes == IF faults < MaxFaults THEN BOOLEAN ELSE {TRUE}

\* processBatch returning c.saveBatch(scores): back to StartConsumer's loop,
\* through its two-second sleep if the save failed; the batch is gone
saveBatch(scores, saved) ==
    /\ durable' = SaveScoreBatch(scores, saved).durable
    /\ cached' = SaveScoreBatch(scores, saved).cached
    /\ handed' = handed \cup SeqRange(scores)
    /\ faults' = IF saved THEN faults ELSE faults + 1
    /\ cstate' = IF saved THEN "loop" ELSE "sleep"
    /\ cbatch' = << >>

\* StartConsumer's select: return on ctx.Done, or else call processBatch
ConsumerLoop ==
    /\ cstate = "loop"
    /\ cstate' = IF cctxDone THEN "stopped" ELSE "collect"
    /\ cbatch' = << >>
    /\ UNCHANGED <<topic, position, committed, cctxDone, durable, cached, handed, faults>>
    /\ UNCHANGED <<idxVars, boardVars, prodVars, storeVars, lockVars>>

\* processBatch's select, case <-timer.C
TimerFires ==
    /\ cstate = "collect"
    /\ IF Len(cbatch) > 0
       THEN \E saved \in SaveOutcomes : saveBatch(cbatch, saved)
       ELSE /\ cstate' = "loop"
            /\ UNCHANGED <<cbatch, durable, cached, handed, faults>>
    /\ UNCHANGED <<topic, position, committed, cctxDone>>
    /\ UNCHANGED <<idxVars, boardVars, prodVars, storeVars, lockVars>>

\* processBatch's select, case <-ctx.Done()
CtxDone ==
    /\ cstate = "collect"
    /\ cctxDone
    /\ IF Len(cbatch) > 0
       THEN \E saved \in SaveOutcomes : saveBatch(cbatch, saved)
       ELSE /\ cstate' = "sleep"
            /\ UNCHANGED <<cbatch, durable, cached, handed, faults>>
    /\ UNCHANGED <<topic, position, committed, cctxDone>>
    /\ UNCHANGED <<idxVars, boardVars, prodVars, storeVars, lockVars>>

\* a consumer that treats a message it cannot decode as a fetch error
MutFetchMessageStopsOnPoison ==
    /\ cstate = "collect"
    /\ ~cctxDone
    /\ position < Len(topic)
    /\ position' = position + 1
    /\ IF topic[position + 1]
       THEN /\ committed' = position + 1
            /\ LET grown == Append(cbatch, position + 1) IN
               IF Len(grown) >= ConsumerBatchSize
               THEN \E saved \in SaveOutcomes : saveBatch(grown, saved)
               ELSE /\ cbatch' = grown
                    /\ UNCHANGED <<cstate, durable, cached, handed, faults>>
       ELSE /\ cbatch' = << >>
            /\ cstate' = "sleep"
            /\ UNCHANGED <<committed, durable, cached, handed, faults>>
    /\ UNCHANGED <<topic, cctxDone>>
    /\ UNCHANGED <<idxVars, boardVars, prodVars, storeVars, lockVars>>

\* processBatch's select, default: FetchMessage returns the next message. A
\* poison message is committed and skipped; a score is appended to the batch
\* and its offset committed, and a batch that is full is saved.
FetchMessage ==
    /\ cstate = "collect"
    /\ ~cctxDone
    /\ position < Len(topic)
    /\ position' = position + 1
    /\ committed' = position + 1
    /\ IF topic[position + 1]
       THEN LET grown == Append(cbatch, position + 1) IN
            IF Len(grown) >= ConsumerBatchSize
            THEN \E saved \in SaveOutcomes : saveBatch(grown, saved)
            ELSE /\ cbatch' = grown
                 /\ UNCHANGED <<cstate, durable, cached, handed, faults>>
       ELSE UNCHANGED <<cbatch, cstate, durable, cached, handed, faults>>
    /\ UNCHANGED <<topic, cctxDone>>
    /\ UNCHANGED <<idxVars, boardVars, prodVars, storeVars, lockVars>>

\* FetchMessage returns a score and CommitMessages fails: processBatch returns
\* the error with the batch
CommitFails ==
    /\ cstate = "collect"
    /\ ~cctxDone
    /\ position < Len(topic)
    /\ topic[position + 1]
    /\ faults < MaxFaults
    /\ position' = position + 1
    /\ faults' = faults + 1
    /\ cbatch' = << >>
    /\ cstate' = "sleep"
    /\ UNCHANGED <<topic, committed, cctxDone, durable, cached, handed>>
    /\ UNCHANGED <<idxVars, boardVars, prodVars, storeVars, lockVars>>

\* FetchMessage returns a poison message and CommitMessages fails: the error
\* is logged and the loop goes on with the batch as it is
PoisonCommitFails ==
    /\ cstate = "collect"
    /\ ~cctxDone
    /\ position < Len(topic)
    /\ ~topic[position + 1]
    /\ faults < MaxFaults
    /\ position' = position + 1
    /\ faults' = faults + 1
    /\ UNCHANGED <<topic, committed, cbatch, cstate, cctxDone, durable, cached, handed>>
    /\ UNCHANGED <<idxVars, boardVars, prodVars, storeVars, lockVars>>

\* FetchMessage fails with an error other than its deadline (the broker, or
\* the context cancelled while it waits): processBatch returns the error
\* with the batch
FetchFails ==
    /\ cstate = "collect"
    /\ cctxDone \/ faults < MaxFaults
    /\ faults' = IF cctxDone THEN faults ELSE faults + 1
    /\ cbatch' = << >>
    /\ cstate' = "sleep"
    /\ UNCHANGED <<topic, position, committed, cctxDone, durable, cached, handed>>
    /\ UNCHANGED <<idxVars, boardVars, prodVars, storeVars, lockVars>>

\* StartConsumer's sleep after an error
Wake ==
    /\ cstate = "sleep"
    /\ cstate' = "loop"
    /\ UNCHANGED <<topic, position, committed, cbatch, cctxDone, durable,
                   cached, handed, faults>>
    /\ UNCHANGED <<idxVars, boardVars, prodVars, storeVars, lockVars>>

\* shutdown: the context of StartConsumer is cancelled
Cancel ==
    /\ ~cctxDone
    /\ cstate # "stopped"
    /\ faults < MaxFaults
    /\ cctxDone' = TRUE
    /\ faults' = faults + 1
    /\ UNCHANGED <<topic, position, committed, cbatch, cstate, durable,
                   cached, handed>>
    /\ UNCHANGED <<idxVars, boardVars, prodVars, storeVars, lockVars>>

\* the service starts again: a reader of the same consumer group resumes at
\* the committed offset, the cache is rebuilt from durable storage
Restart ==
    /\ cstate = "stopped"
    /\ cstate' = "loop"
    /\ cctxDone' = FALSE
    /\ position' = committed
    /\ cbatch' = << >>
    /\ cached' = durable
    /\ handed' = handed
    /\ UNCHANGED <<topic, committed, durable, faults>>
    /\ UNCHANGED <<idxVars, boardVars, prodVars, storeVars, lockVars>>

NextConsumer ==
    \/ \E decodes \in BOOLEAN : Publish(decodes)
    \/ ConsumerLoop
    \/ TimerFires
    \/ CtxDone
    \/ FetchMessage
    \/ CommitFails
    \/ PoisonCommitFails
    \/ FetchFails
    \/ Wake
    \/ Cancel
    \/ Restart

\* the consumer goroutine keeps running, a message that is there is fetched
\* before the batch timer has fired for ever, and a stopped service is started
\* again
FairConsumer ==
    /\ WF_vars(ConsumerLoop)
    /\ WF_vars(TimerFires)
    /\ WF_vars(CtxDone)
    /\ WF_vars(Wake)
    /\ WF_vars(Restart)
    /\ SF_vars(FetchMessage)

SpecConsumer == InitConsumer /\ [][NextConsumer]_vars /\ FairConsumer

\* ---- properties of the consumer ----
\* C8: every decodable message of the topic is eventually in durable storage
\* and applied to the cache, whatever save failed and wherever the consumer
\* stopped in between.
CxC8 == \A k \in 1..MaxTopic :
           (k \in DOMAIN topic /\ topic[k]) ~> (k \in durable /\ k \in cached)

\* ------------------------------------------------------------------------
\* The store, its database and the HTTP handlers
\* ------------------------------------------------------------------------
\* the zero time.Time (Timestamp.IsZero): the request carried no timestamp
ZeroTime == 0 - 1

\* the score requests posted: two users of game 1 with records that tie, a
\* better score of the first, a score of game 2 without a timestamp, and
\* requests with a non-positive game id or user id
Requests ==
    {[GameID |-> 1, UserID |-> 1, Score |-> 1, Timestamp |-> 0],
     [GameID |-> 1, UserID |-> 2, Score |-> 1, Timestamp |-> 0],
     [GameID |-> 1, UserID |-> 1, Score |-> 2, Timestamp |-> 0],
     [GameID |-> 2, UserID |-> 1, Score |-> 1, Timestamp |-> ZeroTime],
     [GameID |-> 0, UserID |-> 1, Score |-> 1, Timestamp |-> 0],
     [GameID |-> 1, UserID |-> 0 - 1, Score |-> 1, Timestamp |-> ZeroTime]}

\* the games and users asked about; game 3 never receives a score
Games == {1, 2, 3}
Players == {1, 2}
Limits == {1, 2}

\* Store.GetOrCreateLeaderboard: the registry with gameID's leaderboard in it
GetOrCreateLeaderboard(ls, gameID) ==
    IF gameID \in DOMAIN ls THEN ls
    ELSE [g \in DOMAIN ls \cup {gameID} |->
             IF g = gameID THEN NewGameLeaderboard ELSE ls[g]]

\* a read path that creates the registry entry it does not find
MutGetLeaderboardCreates(ls, gameID) ==
    [ls |-> GetOrCreateLeaderboard(ls, gameID),
     exists |-> TRUE,
     leaderboard |-> GetOrCreateLeaderboard(ls, gameID)[gameID]]

\* Store.GetLeaderboard: ls is the registry as the call leaves it
GetLeaderboard(ls, gameID) ==
    IF gameID \in DOMAIN ls
    THEN [ls |-> ls, exists |-> TRUE, leaderboard |-> ls[gameID]]
    ELSE [ls |-> ls, exists |-> FALSE, leaderboard |-> NewGameLeaderboard]

\* addScoreToCache filing every score under one game
MutaddScoreToCacheOneGame(ls, score, t, lv) ==
    [g \in DOMAIN ls \cup {score.GameID} |->
        AddScore(GetOrCreateLeaderboard(ls, g)[g], score.UserID, score.Score,
                 score.Timestamp, t, lv)]

\* Store.addScoreToCache at clock t
addScoreToCache(ls, score, t, lv) ==
    [GetOrCreateLeaderboard(ls, score.GameID) EXCEPT ![score.GameID] =
        AddScore(@, score.UserID, score.Score, score.Timestamp, t, lv)]

\* PostgresRepository.SaveScore: one more row
SaveScore(db, score) == db (+) SetToBag({score})

\* Store.AddScore: the database first; saved says whether the insert succeeded
StoreAddScore(ls, db, score, saved, t, lv) ==
    IF ~saved
    THEN [ls |-> ls, rows |-> db, err |-> TRUE]
    ELSE [ls |-> addScoreToCache(ls, score, t, lv),
          rows |-> SaveScore(db, score),
          err |-> FALSE]

\* Store.GetTopLeaders
StoreGetTopLeaders(ls, gameID, limit, w) ==
    LET got == GetLeaderboard(ls, gameID)
    IN [ls |-> got.ls,
        leaders |-> IF got.exists THEN GLGetTopK(got.leaderboard, limit, w) ELSE << >>]

\* Store.GetPlayerRank
StoreGetPlayerRank(ls, gameID, userID, w) ==
    LET got == GetLeaderboard(ls, gameID)
    IN [ls |-> got.ls,
        answer |-> IF got.exists
                   THEN GetRankAndPercentile(got.leaderboard, userID, w)
                   ELSE [rank |-> 0, pctNum |-> 0, pctDen |-> 1, score |-> 0,
                         total |-> 0, found |-> FALSE]]

\* Store.TotalPlayers: the size of the all-time index
StoreTotalPlayers(ls, gameID) ==
    LET got == GetLeaderboard(ls, gameID)
    IN [ls |-> got.ls,
        total |-> IF got.exists THEN TotalPlayers(got.leaderboard, AllTimeIdx) ELSE 0]

\* GetTopLeadersHandler (behind its response cache)
GetTopLeadersHandler(ls, gameID, limit, w) ==
    IF limit <= 0
    THEN [ls |-> ls, status |-> 400, leaders |-> << >>, totalPlayers |-> 0]
    ELSE LET top == StoreGetTopLeaders(ls, gameID, limit, w)
             count == StoreTotalPlayers(top.ls, gameID)
         IN [ls |-> count.ls, status |-> 200, leaders |-> top.leaders,
             totalPlayers |-> count.total]

\* GetPlayerRankHandler: 200 with "Player not found", or 200 with the answer
GetPlayerRankHandler(ls, gameID, userID, w) ==
    LET got == StoreGetPlayerRank(ls, gameID, userID, w)
    IN [ls |-> got.ls, status |-> 200, exists |-> got.answer.found,
        rank |-> got.answer.rank, score |-> got.answer.score,
        totalPlayers |-> got.answer.total]

\* KafkaProducer.SendScore as the handler calls it
SendScore(conn, ch, score) ==
    IF ~conn
    THEN [ch |-> ch, err |-> "producer not connected"]
    ELSE [ch |-> TrySend(ch, score).ch,
          err |-> IF TrySend(ch, score).ok THEN "" ELSE "producer queue full"]

\* the request with time.Now for a missing timestamp
Stamped(score, t) ==
    IF score.Timestamp = ZeroTime THEN [score EXCEPT !.Timestamp = t] ELSE score

\* a handler that fails the request when the producer does
MutSubmitScoreHandlerFailsOnSend(ls, db, conn, ch, score, saved, t, lv) ==
    LET stamped == Stamped(score, t)
        added == StoreAddScore(ls, db, stamped, saved, t, lv)
        sent == SendScore(conn, ch, stamped)
    IN IF stamped.GameID <= 0 \/ stamped.UserID <= 0
       THEN [ls |-> ls, rows |-> db, ch |-> ch, status |-> 400]
       ELSE IF added.err \/ sent.err # ""
       THEN [ls |-> ls, rows |-> db, ch |-> ch, status |-> 500]
       ELSE [ls |-> added.ls, rows |-> added.rows, ch |-> sent.ch, status |-> 200]

\* a handler that validates after it has stored the score
MutSubmitScoreHandlerLateCheck(ls, db, conn, ch, score, saved, t, lv) ==
    LET stamped == Stamped(score, t)
        added == StoreAddScore(ls, db, stamped, saved, t, lv)
    IN IF added.err
       THEN [ls |-> ls, rows |-> db, ch |-> ch, status |-> 500]
       ELSE IF stamped.GameID <= 0 \/ stamped.UserID <= 0
       THEN [ls |-> added.ls, rows |-> added.rows, ch |-> ch, status |-> 400]
       ELSE [ls |-> added.ls, rows |-> added.rows,
             ch |-> SendScore(conn, ch, stamped).ch, status |-> 200]

\* SubmitScoreHandler at clock t: the registry, the rows and the producer's
\* channel as the request leaves them, and the status of the response
SubmitScoreHandler(ls, db, conn, ch, score, saved, t, lv) ==
    LET stamped == Stamped(score, t)
        added == StoreAddScore(ls, db, stamped, saved, t, lv)
    IN IF stamped.GameID <= 0 \/ stamped.UserID <= 0
       THEN [ls |-> ls, rows |-> db, ch |-> ch, status |-> 400]
       ELSE IF added.err
       THEN [ls |-> ls, rows |-> db, ch |-> ch, status |-> 500]
       ELSE [ls |-> added.ls, rows |-> added.rows,
             ch |-> SendScore(conn, ch, stamped).ch, status |-> 200]

\* GameLeaderboard.CleanOldEntries at clock t: its body is commented out
CleanOldEntries(gl, t) == gl

\* Store.CleanOldEntries
StoreCleanOldEntries(ls, t) == [g \in DOMAIN ls |-> CleanOldEntries(ls[g], t)]

\* the requests that pass validation, as stored
ValidRequests == {r \in Requests : r.GameID > 0 /\ r.UserID > 0}
StoredScores == {Stamped(r, t) : r \in ValidRequests, t \in Instants}

\* PostgresRepository.GetAllGames: SELECT DISTINCT game_id
GetAllGames(db) == {row.GameID : row \in BagToSet(db)}

\* the orders in which ORDER BY timestamp DESC can return the rows S (each a
\* row with its copy number): rows with equal timestamps come in any order
RECURSIVE NewestFirst(_)
NewestFirst(S) ==
    IF S = {} THEN {<< >>}
    ELSE UNION {{<<x.row>> \o rest : rest \in NewestFirst(S \ {x})} :
                   x \in {x \in S : \A y \in S : y.row.Timestamp <= x.row.Timestamp}}

\* PostgresRepository.GetAllScoresForGame: the result sets the query can return
GetAllScoresForGame(db, gameID) ==
    NewestFirst(UNION {{[row |-> r, copy |-> n] : n \in 1..CopiesIn(r, db)} :
                          r \in {x \in BagToSet(db) : x.GameID = gameID}})

\* GameLeaderboard.AddScoreBatch at clock t
RECURSIVE AddScoreBatch(_, _, _, _)
AddScoreBatch(gl, scores, t, lv) ==
    IF scores = << >> THEN gl
    ELSE AddScoreBatch(AddScore(gl, Head(scores).UserID, Head(scores).Score,
                                Head(scores).Timestamp, t, lv),
                       Tail(scores), t, lv)

\* Store.CacheGameLeaderboard, scores being what GetAllScoresForGame returned
CacheGameLeaderboard(ls, gameID, scores, t, lv) ==
    [GetOrCreateLeaderboard(ls, gameID) EXCEPT ![gameID] =
        AddScoreBatch(@, scores, t, lv)]

\* the scores the consumer's batches carry: one that was posted here and one
\* that another instance of the service published
BatchScores ==
    {[GameID |-> 1, UserID |-> 1, Score |-> 1, Timestamp |-> 0],
     [GameID |-> 2, UserID |-> 2, Score |-> 2, Timestamp |-> 0]}
Batches == {<<a>> : a \in BatchScores} \cup {<<a, b>> : a, b \in BatchScores}

\* the rows that inserting the scores one by one adds to the table
RECURSIVE InsertAll(_, _)
InsertAll(db, scores) ==
    IF scores = << >> THEN db
    ELSE InsertAll(SaveScore(db, Head(scores)), Tail(scores))

\* a batch insert outside a transaction: the rows before the failure stay
MutRepoSaveScoreBatchNoTx(db, scores, failAt) ==
    IF failAt = 0
    THEN [rows |-> InsertAll(db, scores), err |-> FALSE]
    ELSE [rows |-> InsertAll(db, SubSeq(scores, 1, failAt - 1)), err |-> TRUE]

\* PostgresRepository.SaveScoreBatch: one transaction; failAt is the insert
\* that fails (0: none), and a failure rolls the transaction back
RepoSaveScoreBatch(db, scores, failAt) ==
    IF failAt = 0
    THEN [rows |-> InsertAll(db, scores), err |-> FALSE]
    ELSE [rows |-> db, err |-> TRUE]

\* Store.SaveScoreBatch at clock t: the database first, then every score of
\* the batch to the cache
StoreSaveScoreBatch(ls, db, scores, failAt, t, lv) ==
    LET RECURSIVE cache(_, _)
        cache(l, i) == IF i > Len(scores) THEN l
                       ELSE cache(addScoreToCache(l, scores[i], t, lv), i + 1)
        stored == RepoSaveScoreBatch(db, scores, failAt)
    IN IF scores = << >> THEN [ls |-> ls, rows |-> db, err |-> FALSE]
       ELSE IF stored.err THEN [ls |-> ls, rows |-> stored.rows, err |-> TRUE]
       ELSE [ls |-> cache(ls, 1), rows |-> stored.rows, err |-> FALSE]

\* ------------------------------------------------------------------------
\* Specification of the store: scores added, read, compacted as time passes
\* ------------------------------------------------------------------------
InitStore == IdleIndex /\ IdleBoard /\ IdleProducer /\ IdleConsumer /\ IdleStore /\ IdleLocks

\* Store.AddScore(score) called with a validated, stamped score
AddScoreCall(score, saved, lv) ==
    /\ LET added == StoreAddScore(leaderboards, rows, Stamped(score, now), saved, now, lv)
       IN /\ BagCardinality(added.rows) <= MaxRows
          /\ leaderboards' = added.ls
          /\ rows' = added.rows
    /\ UNCHANGED <<response, loading, initReturned>>
    /\ UNCHANGED <<idxVars, boardVars, prodVars, consVars, lockVars>>

\* GET /api/leaderboard/top/{gameId}
TopLeadersRequest(gameID, limit, w) ==
    /\ LET got == GetTopLeadersHandler(leaderboards, gameID, limit, w)
       IN /\ leaderboards' = got.ls
          /\ response' = got.status
    /\ UNCHANGED <<rows, loading, initReturned>>
    /\ UNCHANGED <<idxVars, boardVars, prodVars, consVars, lockVars>>

\* GET /api/leaderboard/rank/{gameId}/{userId}
PlayerRankRequest(gameID, userID, w) ==
    /\ LET got == GetPlayerRankHandler(leaderboards, gameID, userID, w)
       IN /\ leaderboards' = got.ls
          /\ response' = got.status
    /\ UNCHANGED <<rows, loading, initReturned>>
    /\ UNCHANGED <<idxVars, boardVars, prodVars, consVars, lockVars>>

\* the cleanup ticker of StartPeriodicCleanup fires
Cleanup ==
    /\ leaderboards' = StoreCleanOldEntries(leaderboards, now)
    /\ UNCHANGED <<rows, response, loading, initReturned>>
    /\ UNCHANGED <<idxVars, boardVars, prodVars, consVars, lockVars>>

\* KafkaConsumer.saveBatch calls Store.SaveScoreBatch(scores)
SaveBatchCall(scores, failAt, lv) ==
    /\ LET saved == StoreSaveScoreBatch(leaderboards, rows, scores, failAt, now, lv)
       IN /\ BagCardinality(saved.rows) <= MaxRows
          /\ leaderboards' = saved.ls
          /\ rows' = saved.rows
    /\ UNCHANGED <<response, loading, initReturned>>
    /\ UNCHANGED <<idxVars, boardVars, prodVars, consVars, lockVars>>

NextStore ==
    \/ \E scores \in Batches, lv \in Heights :
          \E failAt \in 0..Len(scores) : SaveBatchCall(scores, failAt, lv)
    \/ \E score \in ValidRequests, saved \in BOOLEAN, lv \in Heights :
          AddScoreCall(score, saved, lv)
    \/ \E gameID \in Games, limit \in Limits, w \in Windows :
          TopLeadersRequest(gameID, limit, w)
    \/ \E gameID \in Games, userID \in Players, w \in Windows :
          PlayerRankRequest(gameID, userID, w)
    \/ Cleanup
    \/ Tick

SpecStore == InitStore /\ [][NextStore]_vars

\* ------------------------------------------------------------------------
\* Specification of score submission: the handler, the store, the producer
\* ------------------------------------------------------------------------
InitSubmit == IdleIndex /\ IdleBoard /\ IdleProducer /\ IdleConsumer /\ IdleStore /\ IdleLocks

\* the requests posted here: those of game 1 and the invalid ones
SubmitRequests == {r \in Requests : r.GameID <= 1}

\* POST /api/leaderboard/score
PostScore(score, saved, lv) ==
    /\ LET got == SubmitScoreHandler(leaderboards, rows, connected, scoreChan,
                                     score, saved, now, lv)
       IN /\ BagCardinality(got.rows) <= MaxRows
          /\ leaderboards' = got.ls
          /\ rows' = got.rows
          /\ scoreChan' = got.ch
          /\ response' = got.status
    /\ UNCHANGED <<loading, initReturned>>
    /\ UNCHANGED <<connected, batch, pctxDone, worker, written, sending,
                   result, accepted, atClose, closing, nextScore>>
    /\ UNCHANGED <<idxVars, boardVars, consVars, lockVars>>

NextSubmit ==
    \/ \E score \in SubmitRequests, saved \in BOOLEAN, lv \in Heights :
          PostScore(score, saved, lv)
    \/ ProducerClose

SpecSubmit == InitSubmit /\ [][NextSubmit]_vars

\* ---- properties of score submission ----
\* the windows that admit a score with this timestamp at clock t
Admits(w, timestamp, t) == w = AllTimeIdx \/ LaterThanHorizon(w, timestamp, t)

\* the rank answer and the full top-k answer for window w of the score's game
\* both show the score's user with a score at least as high
Reflected(ls, score, w) ==
    LET rank == GetPlayerRankHandler(ls, score.GameID, score.UserID, w)
        top == GetTopLeadersHandler(ls, score.GameID, Cardinality(Players), w)
    IN /\ rank.exists
       /\ rank.score >= score.Score
       /\ \E i \in 1..Len(top.leaders) :
             /\ top.leaders[i].UserID = score.UserID
             /\ top.leaders[i].Score >= score.Score

\* C11: when submit_score answers success, a rank query and a top_k query
\* issued right after it, for every window that admits the score, show the
\* user with a score at least as high as the one submitted.
CxC11 ==
    \A score \in SubmitRequests, saved \in BOOLEAN, lv \in Heights :
       LET got == SubmitScoreHandler(leaderboards, rows, connected, scoreChan,
                                     score, saved, now, lv)
       IN got.status = 200 =>
             \A w \in Windows :
                Admits(w, Stamped(score, now).Timestamp, now)
                   => Reflected(got.ls, Stamped(score, now), w)

\* ------------------------------------------------------------------------
\* Specification of a restart: the process starts on a populated database
\* ------------------------------------------------------------------------
\* setupStore: NewStore on a database that holds rows written before the
\* restart, none of them stamped later than the clock
InitRestore ==
    /\ IdleIndex /\ IdleProducer /\ IdleConsumer /\ IdleLocks
    /\ boards = NewGameLeaderboard
    /\ now \in Instants
    /\ \E stored \in SUBSET {row \in StoredScores : row.Timestamp <= now} :
          rows = SetToBag(stored)
    /\ leaderboards = << >>
    /\ response = 0
    /\ loading = {}
    /\ initReturned = FALSE

\* Store.InitializeFromDatabase: one goroutine per game is started, and the
\* call returns without waiting for any of them
InitializeFromDatabase ==
    /\ ~initReturned
    /\ loading' = GetAllGames(rows)
    /\ initReturned' = TRUE
    /\ UNCHANGED <<leaderboards, rows, response>>
    /\ UNCHANGED <<idxVars, boardVars, prodVars, consVars, lockVars>>

\* one of the goroutines runs Store.CacheGameLeaderboard(gameID)
CacheGame(gameID, lv) ==
    /\ gameID \in loading
    /\ \E scores \in GetAllScoresForGame(rows, gameID) :
          leaderboards' = CacheGameLeaderboard(leaderboards, gameID, scores, now, lv)
    /\ loading' = loading \ {gameID}
    /\ UNCHANGED <<rows, response, initReturned>>
    /\ UNCHANGED <<idxVars, boardVars, prodVars, consVars, lockVars>>

NextRestore ==
    \/ InitializeFromDatabase
    \/ \E gameID \in Games, lv \in Heights : CacheGame(gameID, lv)

SpecRestore == InitRestore /\ [][NextRestore]_vars

\* ---- properties of a restart ----
\* what the rows db say about window w of a game at clock t: the users with
\* a row the window admits, each with the highest score of those rows
Projection(db, gameID, w, t) ==
    LET admitted == {row \in BagToSet(db) : row.GameID = gameID
                                  /\ isScoreValid(w, row.Timestamp, t)}
    IN {[UserID |-> row.UserID, Score |-> row.Score] :
           row \in {x \in admitted :
                       \A y \in admitted : y.UserID = x.UserID => y.Score <= x.Score}}

\* the cache's answers for window w of a game agree with the rows: top_k
\* lists the projection's users and scores, total_players counts them, and
\* rank finds each of them with that score and nobody else
Projects(ls, db, gameID, w, t) ==
    LET want == Projection(db, gameID, w, t)
        top == StoreGetTopLeaders(ls, gameID, Cardinality(Players), w).leaders
    IN /\ {[UserID |-> top[i].UserID, Score |-> top[i].Score] : i \in DOMAIN top} = want
       /\ Len(top) = Cardinality(want)
       /\ \A u \in Players :
             LET got == GetPlayerRankHandler(ls, gameID, u, w)
             IN /\ got.exists = (\E e \in want : e.UserID = u)
                /\ got.exists => /\ [UserID |-> u, Score |-> got.score] \in want
                                 /\ got.totalPlayers = Cardinality(want)

\* C12: once InitializeFromDatabase has returned after a restart, the top_k,
\* rank and total_players answers of every game and window are those the
\* rows of the database give.
CxC12 ==
    initReturned =>
       \A gameID \in Games, w \in Windows :
          Projects(leaderboards, rows, gameID, w, now)

\* ---- properties of the store ----
\* the size of window w's index of a game (0 for a game without a leaderboard)
IndexSize(ls, gameID, w) ==
    IF gameID \in DOMAIN ls THEN GetLength(ls[gameID][w]) ELSE 0

\* C13: the total_players returned with a top-leaders answer or with a
\* player-rank answer for window w equals the size of the game's index for w.
CxC13 ==
    \A gameID \in Games, w \in Windows :
       /\ \A limit \in Limits :
             GetTopLeadersHandler(leaderboards, gameID, limit, w).totalPlayers
                = IndexSize(leaderboards, gameID, w)
       /\ \A userID \in Players :
             LET got == GetPlayerRankHandler(leaderboards, gameID, userID, w)
             IN got.exists => got.totalPlayers = IndexSize(leaderboards, gameID, w)

\* ---- properties of rejected and of unpublished submissions ----
\* C14: a submission with game_id <= 0 or user_id <= 0 is answered with the
\* validation error 400 and leaves the indexes, the rows of the database and
\* the producer's queue as they were.
ThmC14 ==
    \A score \in SubmitRequests, saved \in BOOLEAN, lv \in Heights :
       (score.GameID <= 0 \/ score.UserID <= 0) =>
          LET got == SubmitScoreHandler(leaderboards, rows, connected, scoreChan,
                                        score, saved, now, lv)
          IN /\ got.status = 400
             /\ got.ls = leaderboards
             /\ got.rows = rows
             /\ got.ch = scoreChan

\* C14 witness: a request was rejected while the cache, the database and the
\* queue held scores
WitC14 ==
    /\ response = 400
    /\ DOMAIN leaderboards # {}
    /\ rows # EmptyBag
    /\ scoreChan # << >>

\* C15: when the producer refuses a stored score (queue full, or producer not
\* connected) the request is still answered 200, the score is in the database
\* and applied to the cache, and the queue is as it was.
ThmC15 ==
    \A score \in SubmitRequests, lv \in Heights :
       LET stamped == Stamped(score, now)
           got == SubmitScoreHandler(leaderboards, rows, connected, scoreChan,
                                     score, TRUE, now, lv)
       IN (score \in ValidRequests /\ SendScore(connected, scoreChan, stamped).err # "") =>
             /\ got.status = 200
             /\ got.ls = addScoreToCache(leaderboards, stamped, now, lv)
             /\ HoldsAtLeast(got.ls[stamped.GameID][AllTimeIdx], stamped.UserID,
                             [Score |-> stamped.Score, Timestamp |-> stamped.Timestamp])
             /\ got.rows = SaveScore(rows, stamped)
             /\ got.ch = scoreChan

\* C15 witness: a request was answered 200 and the database holds a score
\* that never entered the queue (nothing leaves the queue here)
WitC15 ==
    /\ response = 200
    /\ \E row \in BagToSet(rows) : \A i \in DOMAIN scoreChan : scoreChan[i] # row
    /\ \E row \in BagToSet(rows) : HoldsAtLeast(leaderboards[row.GameID][AllTimeIdx], row.UserID,
                                      [Score |-> row.Score, Timestamp |-> row.Timestamp])

\* ---- properties of the registry ----
\* every answer the read handlers give about a game
Answers(ls, gameID) ==
    [top |-> [limit \in Limits, w \in Windows |->
                 LET got == GetTopLeadersHandler(ls, gameID, limit, w)
                 IN <<got.status, got.leaders, got.totalPlayers>>],
     rank |-> [userID \in Players, w \in Windows |->
                 LET got == GetPlayerRankHandler(ls, gameID, userID, w)
                 IN <<got.status, got.exists, got.rank, got.score, got.totalPlayers>>],
     total |-> StoreTotalPlayers(ls, gameID).total]

\* C16: adding a score for one game leaves every answer about every other
\* game as it was, and total_players of a game no score was stored for is 0.
ThmC16 ==
    /\ \A score \in StoredScores, saved \in BOOLEAN, lv \in Heights, gameID \in Games :
          gameID # score.GameID =>
             Answers(StoreAddScore(leaderboards, rows, score, saved, now, lv).ls, gameID)
                = Answers(leaderboards, gameID)
    /\ \A gameID \in Games :
          (\A row \in BagToSet(rows) : row.GameID # gameID) =>
             /\ StoreTotalPlayers(leaderboards, gameID).total = 0
             /\ \A limit \in Limits, w \in Windows :
                   GetTopLeadersHandler(leaderboards, gameID, limit, w).totalPlayers = 0

\* C16 witness: game 1 has two players, game 2 has one, and a third game has
\* received nothing
WitC16 ==
    /\ StoreTotalPlayers(leaderboards, 1).total = 2
    /\ StoreTotalPlayers(leaderboards, 2).total = 1
    /\ \E gameID \in Games :
          /\ \A row \in BagToSet(rows) : row.GameID # gameID
          /\ StoreTotalPlayers(leaderboards, gameID).total = 0

\* ---- order of the durable writes ----
\* C17: of two score events of one game that the producer accepted in the
\* order e1, e2 (their order in the game's partition), e1 is written to
\* durable storage no later than e2: whenever e2 is in the database, so is e1.
CxC17 ==
    \A e1 \in DOMAIN topic, e2 \in DOMAIN topic :
       (e1 < e2 /\ topic[e1] /\ topic[e2] /\ e2 \in durable) => e1 \in durable

\* ---- compaction ----
\* C18: after compaction has run at clock now, no 24h, 3d or 7d index of any
\* game holds an entry whose timestamp is older than now - W.hours, and the
\* all-time index of every game is as it was.
CxC18 ==
    LET compacted == StoreCleanOldEntries(leaderboards, now)
    IN \A gameID \in DOMAIN compacted :
          /\ compacted[gameID][AllTimeIdx] = leaderboards[gameID][AllTimeIdx]
          /\ \A w \in Windows \ {AllTimeIdx}, userID \in Players :
                LET entry == Search(compacted[gameID][w], userID)
                IN entry.found => entry.value.Timestamp >= now - AllTimeWindows[w]

\* ---- delete ----
\* the entries of the ordered list, best first
Entries(ix) == [i \in 1..Len(Linked(ix)) |->
                  [Key |-> ix.nodes[Linked(ix)[i]].Key,
                   Value |-> ix.nodes[Linked(ix)[i]].Value]]
NotOf(key, entry) == entry.Key # key

\* C19: delete(key) of a key in the index returns true, takes one off the
\* size, makes lookup(key) absent and leaves the lookups of the other users
\* and the ordered list without that key's entry as they were; delete of a
\* key not in the index returns false and changes nothing.
CxC19 ==
    \A key \in Users :
       LET d == Delete(sl, key)
       IN IF key \in DOMAIN sl.mapIndex
          THEN /\ d.ok
               /\ GetLength(d.sl) = GetLength(sl) - 1
               /\ ~Search(d.sl, key).found
               /\ \A u \in Users \ {key} : Search(d.sl, u) = Search(sl, u)
               /\ Entries(d.sl) = SelectSeq(Entries(sl), LAMBDA e : NotOf(key, e))
          ELSE /\ ~d.ok
               /\ d.sl = sl

\* ---- reads of an unknown game ----
\* no score has been stored for the game
Unknown(gameID) == \A row \in BagToSet(rows) : row.GameID # gameID

\* the answers the read paths give about a game with no leaderboard, each
\* leaving the registry as it found it
AnswersNothing(ls, gameID) ==
    /\ \A limit \in Limits, w \in Windows :
          GetTopLeadersHandler(ls, gameID, limit, w)
             = [ls |-> ls, status |-> 200, leaders |-> << >>, totalPlayers |-> 0]
    /\ \A userID \in Players, w \in Windows :
          LET got == GetPlayerRankHandler(ls, gameID, userID, w)
          IN got.ls = ls /\ got.status = 200 /\ ~got.exists
    /\ StoreTotalPlayers(ls, gameID) = [ls |-> ls, total |-> 0]

CxC21 ==
    /\ \A key \in DOMAIN sl.mapIndex :
          /\ sl.mapIndex[key] \in SeqRange(Linked(sl))
          /\ sl.nodes[sl.mapIndex[key]].Key = key
    /\ \A i \in 1..Len(Linked(sl)) : LinkedNode(i).Key \in DOMAIN sl.mapIndex
    /\ GetLength(sl) = Cardinality(DOMAIN sl.mapIndex)
    /\ GetLength(sl) = Len(Linked(sl))

\* ---- the batch the consumer is collecting ----
\* C22: every decoded message whose offset the consumer has committed is in
\* the batch being collected or has been passed to saveBatch: no fetch error,
\* commit error or cancellation drops the messages already collected.
CxC22 ==
    \A k \in 1..committed :
       topic[k] => (k \in SeqRange(cbatch) \/ k \in handed)

\* ---- the batch save of the store ----
\* C23: Store.SaveScoreBatch applies the scores to the cache only when the
\* transactional insert has succeeded, and then every row is stored and every
\* score applied; when an insert fails the error is returned, the rows of the
\* database are as before and no index has changed.
ThmC23 ==
    \A scores \in Batches, lv \in Heights :
       \A failAt \in 0..Len(scores) :
          LET saved == StoreSaveScoreBatch(leaderboards, rows, scores, failAt, now, lv)
          IN IF failAt # 0
             THEN saved = [ls |-> leaderboards, rows |-> rows, err |-> TRUE]
             ELSE /\ ~saved.err
                  /\ saved.rows = InsertAll(rows, scores)
                  /\ \A i \in 1..Len(scores) :
                        HoldsAtLeast(saved.ls[scores[i].GameID][AllTimeIdx],
                                     scores[i].UserID,
                                     [Score |-> scores[i].Score,
                                      Timestamp |-> scores[i].Timestamp])

\* C23 witness: the score another instance published has arrived in a batch:
\* its row is stored and the cache holds it, next to rows stored by requests
WitC23 ==
    \E row \in BagToSet(rows) :
       /\ row \notin StoredScores
       /\ HoldsAtLeast(leaderboards[row.GameID][AllTimeIdx], row.UserID,
                       [Score |-> row.Score, Timestamp |-> row.Timestamp])
       /\ BagToSet(rows) \cap StoredScores # {}

\* ------------------------------------------------------------------------
\* Specification of the locks: goroutines inside the store's registry and
\* inside one game's window leaderboards
\* ------------------------------------------------------------------------
InitLocks == IdleIndex /\ IdleBoard /\ IdleProducer /\ IdleConsumer /\ IdleStore /\ IdleLocks

\* withLeaderboard taking the lock for writes only
MutLocksWriteOnly(lockType) == lockType = "Write"

\* withLeaderboard's switch: the lock types for which lb.mu is locked
Locks(lockType) == lockType \in {"Write", "DirtyRead"}

\* GetOrCreateLeaderboard from ls.mu.Lock() on: the goroutine holds Store.mu
\* and is inside the map (a lookup, and an insertion if the game is absent)
GetOrCreateLock(p, gameID) ==
    /\ pc[p] = AtRest
    /\ mu = 0
    /\ mu' = p
    /\ pc' = [pc EXCEPT ![p] = [at |-> "GetOrCreateLeaderboard", arg |-> gameID, step |-> 0]]
    /\ UNCHANGED <<lbmu, slmu, idxVars, boardVars, prodVars, consVars, storeVars>>

\* GetOrCreateLeaderboard returns: the entry is in the map, Store.mu is free
GetOrCreateUnlock(p) ==
    /\ pc[p].at = "GetOrCreateLeaderboard"
    /\ leaderboards' = GetOrCreateLeaderboard(leaderboards, pc[p].arg)
    /\ mu' = 0
    /\ pc' = [pc EXCEPT ![p] = AtRest]
    /\ UNCHANGED <<rows, response, loading, initReturned>>
    /\ UNCHANGED <<lbmu, slmu, idxVars, boardVars, prodVars, consVars>>

\* GetLeaderboard looks the game up in the map; it takes no lock
GetLeaderboardEnter(p, gameID) ==
    /\ pc[p] = AtRest
    /\ pc' = [pc EXCEPT ![p] = [at |-> "GetLeaderboard", arg |-> gameID, step |-> 0]]
    /\ UNCHANGED <<mu, lbmu, slmu, idxVars, boardVars, prodVars, consVars, storeVars>>

\* Store.CleanOldEntries ranges over the map; its RLock is commented out
CleanOldEntriesEnter(p) ==
    /\ pc[p] = AtRest
    /\ pc' = [pc EXCEPT ![p] = [at |-> "CleanOldEntries", arg |-> 0, step |-> 0]]
    /\ UNCHANGED <<mu, lbmu, slmu, idxVars, boardVars, prodVars, consVars, storeVars>>

\* GetLeaderboard or CleanOldEntries returns
MapReadReturn(p) ==
    /\ pc[p].at \in {"GetLeaderboard", "CleanOldEntries"}
    /\ pc' = [pc EXCEPT ![p] = AtRest]
    /\ UNCHANGED <<mu, lbmu, slmu, idxVars, boardVars, prodVars, consVars, storeVars>>

\* withLeaderboard(window, lockType, fn) up to the call of fn: AddScore calls
\* it with LockTypeWrite, GetTopK, GetRankAndPercentile and TotalPlayers with
\* LockTypeDirtyRead
WithLeaderboardEnter(p, w, lockType) ==
    /\ pc[p] = AtRest
    /\ IF Locks(lockType)
       THEN lbmu[w] = 0 /\ lbmu' = [lbmu EXCEPT ![w] = p]
       ELSE lbmu' = lbmu
    /\ pc' = [pc EXCEPT ![p] = [at |-> lockType, arg |-> w, step |-> 0]]
    /\ UNCHANGED <<mu, slmu, idxVars, boardVars, prodVars, consVars, storeVars>>

\* withLeaderboard whose deferred Unlock is missing
MutWithLeaderboardReturnKeepsLock(p) ==
    /\ pc[p].at = "DirtyRead" \/ (pc[p].at = "Write" /\ pc[p].step = 2)
    /\ pc' = [pc EXCEPT ![p] = AtRest]
    /\ UNCHANGED <<mu, lbmu, slmu, idxVars, boardVars, prodVars, consVars, storeVars>>

\* AddScore's fn calls InsertOrUpdate, which locks the index's own mutex
InsertOrUpdateLock(p) ==
    /\ pc[p].at = "Write"
    /\ pc[p].step = 0
    /\ slmu[pc[p].arg] = 0
    /\ slmu' = [slmu EXCEPT ![pc[p].arg] = p]
    /\ pc' = [pc EXCEPT ![p].step = 1]
    /\ UNCHANGED <<mu, lbmu, idxVars, boardVars, prodVars, consVars, storeVars>>

\* InsertOrUpdate returns: the deferred Unlock of the index's mutex
InsertOrUpdateUnlock(p) ==
    /\ pc[p].at = "Write"
    /\ pc[p].step = 1
    /\ slmu' = [slmu EXCEPT ![pc[p].arg] = 0]
    /\ pc' = [pc EXCEPT ![p].step = 2]
    /\ UNCHANGED <<mu, lbmu, idxVars, boardVars, prodVars, consVars, storeVars>>

\* fn has run on the window's index (the reads take no further lock, see
\* GetTopK, GetRank, Search and GetLength); the deferred Unlock
WithLeaderboardReturn(p) ==
    /\ pc[p].at = "DirtyRead" \/ (pc[p].at = "Write" /\ pc[p].step = 2)
    /\ lbmu' = IF Locks(pc[p].at) THEN [lbmu EXCEPT ![pc[p].arg] = 0] ELSE lbmu
    /\ pc' = [pc EXCEPT ![p] = AtRest]
    /\ UNCHANGED <<mu, slmu, idxVars, boardVars, prodVars, consVars, storeVars>>

NextLocks ==
    \/ \E p \in Goroutines, gameID \in Games : GetOrCreateLock(p, gameID)
    \/ \E p \in Goroutines : GetOrCreateUnlock(p)
    \/ \E p \in Goroutines, gameID \in Games : GetLeaderboardEnter(p, gameID)
    \/ \E p \in Goroutines : CleanOldEntriesEnter(p)
    \/ \E p \in Goroutines : MapReadReturn(p)
    \/ \E p \in Goroutines, w \in Windows, lockType \in {"Write", "DirtyRead"} :
          WithLeaderboardEnter(p, w, lockType)
    \/ \E p \in Goroutines : InsertOrUpdateLock(p)
    \/ \E p \in Goroutines : InsertOrUpdateUnlock(p)
    \/ \E p \in Goroutines : WithLeaderboardReturn(p)

SpecLocks == InitLocks /\ [][NextLocks]_vars

\* ---- properties of the locks ----
\* C24: no lookup in the registry's map by GetLeaderboard and no iteration
\* over it by CleanOldEntries runs while GetOrCreateLeaderboard is inserting
\* a game into the map.
CxC24 ==
    \A p \in Goroutines : \A q \in Goroutines \ {p} :
       ~ /\ pc[p].at = "GetOrCreateLeaderboard"
         /\ pc[p].arg \notin DOMAIN leaderboards
         /\ pc[q].at \in {"GetLeaderboard", "CleanOldEntries"}

CxC26 ==
    \A score \in StoredScores, saved \in BOOLEAN, lv \in Heights :
       LET added == StoreAddScore(leaderboards, rows, score, saved, now, lv)
       IN /\ added.rows = rows
          /\ \A gameID \in DOMAIN added.ls \ {score.GameID} :
                gameID \in DOMAIN leaderboards /\ added.ls[gameID] = leaderboards[gameID]

\* ---- submit against close ----
\* C29: once Close has begun no submit returns ok: the accepted events are
\* those accepted when Close was called, and no event is accepted into the
\* queue after the worker has stopped reading it.
CxC29 ==
    /\ [](closing # "no" => accepted = atClose)
    /\ [][worker = "exited" => accepted' = accepted]_vars

\* ---- the worker's batches ----
\* the events on their way, oldest first: handed to the writer, in the
\* worker's batch, in the queue
Line == written \o batch \o scoreChan
NoRepeats(line) == \A i, j \in DOMAIN line : line[i] = line[j] => i = j

\* C30: while the producer is running, every event accepted into the queue
\* is eventually handed to the broker writer, exactly once and in the order
\* of acceptance, in a batch of at most batch_size events that is flushed
\* when it becomes full or, if it is not empty, when the flush interval
\* elapses.
ThmC30 ==
    /\ [](closing = "no" =>
             /\ NoRepeats(Line)
             /\ SeqRange(Line) = accepted
             /\ Len(batch) < ProducerBatchSize)
    /\ [][closing' = "no" =>
             /\ \/ Line' = Line
                \/ \E score \in accepted' \ accepted : Line' = Append(Line, score)
             /\ Len(written') - Len(written) <= ProducerBatchSize
             /\ (Len(scoreChan') < Len(scoreChan) /\ Len(batch) + 1 = ProducerBatchSize)
                   => written' = written \o batch \o <<Head(scoreChan)>>
             /\ (written' # written /\ scoreChan' = scoreChan)
                   => batch # << >> /\ written' = written \o batch]_vars
    /\ \A score \in 1..MaxScores :
          (score \in accepted) ~> (score \in SeqRange(written) \/ closing # "no")
    /\ (batch # << >>) ~> (batch = << >> \/ closing # "no")

\* three events handed to the writer with the producer running, the first
\* two in a full batch and in the order they were accepted, not the order
\* their calls began
WitC30 ==
    /\ closing = "no"
    /\ Len(written) = 3
    /\ written[1] > written[2]
    /\ SeqRange(written) = accepted

\* ---- poison messages ----
\* the step fetches a message that does not decode
PoisonFetched == position' = position + 1 /\ ~topic[position + 1]

\* C28: when a fetched message fails to decode, the consumer commits its
\* offset (the commit's own failure is only logged), leaves the batch as it
\* is and goes on collecting; the batch holds every valid message fetched
\* since its first one, whatever poison messages lie between them, and a
\* save of the batch makes all of them durable.
ThmC28 ==
    /\ [][PoisonFetched =>
             /\ \/ committed' = position + 1 /\ faults' = faults
                \/ committed' = committed /\ faults' = faults + 1
             /\ cbatch' = cbatch
             /\ cstate' = "collect"
             /\ durable' = durable
             /\ handed' = handed]_vars
    /\ [](cbatch # << >> =>
             \A k \in Head(cbatch)..position : topic[k] <=> k \in SeqRange(cbatch))
    /\ [][durable' # durable =>
             \A k \in 1..position' :
                (cbatch # << >> /\ k >= Head(cbatch) /\ topic[k]) => k \in durable']_vars

\* a batch with a poison message between two valid ones was saved: both
\* valid messages are durable, the poison one is committed and in no batch
WitC28 ==
    /\ Len(topic) >= 3
    /\ topic[1] /\ ~topic[2] /\ topic[3]
    /\ durable = {1, 3}
    /\ handed = {1, 3}
    /\ committed = 3
    /\ faults = 0

\* ------------------------------------------------------------------------
\* Specification of the write path: the handler, the producer's worker, the
\* topic and the consumer, with the database up, the producer connected and
\* every message delivered to the reader once, in the writer's order
\* ------------------------------------------------------------------------
InitPipeline == IdleIndex /\ IdleBoard /\ IdleProducer /\ IdleConsumer /\ IdleStore /\ IdleLocks

\* the requests posted on the write path
PipelineRequests == {r \in ValidRequests : r.GameID = 1}

\* POST /api/leaderboard/score, the insert succeeding; the request is
\* numbered, and accepted when the answer is 200
SubmitScore(score, lv) ==
    /\ nextScore <= MaxScores
    /\ LET got == SubmitScoreHandler(leaderboards, rows, connected, scoreChan,
                                     score, TRUE, now, lv)
       IN /\ BagCardinality(got.rows) <= MaxRows
          /\ leaderboards' = got.ls
          /\ rows' = got.rows
          /\ scoreChan' = got.ch
          /\ response' = got.status
          /\ accepted' = IF got.status = 200 /\ Len(got.ch) > Len(scoreChan)
                         THEN accepted \cup {nextScore} ELSE accepted
    /\ nextScore' = nextScore + 1
    /\ UNCHANGED <<loading, initReturned>>
    /\ UNCHANGED <<connected, batch, pctxDone, worker, written, sending,
                   result, atClose, closing>>
    /\ UNCHANGED <<idxVars, boardVars, consVars, lockVars>>

\* processBatch over the next n messages of the topic (the batch is full, or
\* the timer fires after n messages): each is fetched, appended and
\* committed, then saveBatch hands the batch to Store.SaveScoreBatch
ProcessBatch(n, lv) ==
    /\ n <= Len(written) - position
    /\ LET offsets == [i \in 1..n |-> position + i]
           scores == SubSeq(written, position + 1, position + n)
           saved == StoreSaveScoreBatch(leaderboards, rows, scores, 0, now, lv)
       IN /\ BagCardinality(saved.rows) <= MaxRows
          /\ leaderboards' = saved.ls
          /\ rows' = saved.rows
          /\ handed' = handed \cup SeqRange(offsets)
          /\ durable' = durable \cup SeqRange(offsets)
          /\ cached' = cached \cup SeqRange(offsets)
    /\ position' = position + n
    /\ committed' = position + n
    /\ UNCHANGED <<topic, cbatch, cstate, cctxDone, faults>>
    /\ UNCHANGED <<response, loading, initReturned>>
    /\ UNCHANGED <<idxVars, boardVars, prodVars, lockVars>>

NextPipeline ==
    \/ \E score \in PipelineRequests, lv \in Heights : SubmitScore(score, lv)
    \/ WorkerReceive
    \/ WorkerTick
    \/ \E n \in 1..ConsumerBatchSize, lv \in Heights : ProcessBatch(n, lv)

SpecPipeline == InitPipeline /\ [][NextPipeline]_vars

\* ---- properties of the write path ----
\* nothing is in flight: the queue and the worker's batch are empty and the
\* consumer has saved every message the writer was handed
Drained == scoreChan = << >> /\ batch = << >> /\ position = Len(written)

\* no submit was turned away: every request posted so far was accepted
AllAccepted == Cardinality(accepted) = nextScore - 1

\* C27: in a run without failures and without re-delivery each accepted
\* submit_score produces exactly one row in durable storage: when no submit
\* was turned away and nothing is in flight, the scores table holds as many
\* rows as submits were accepted.
CxC27 == (AllAccepted /\ Drained) => BagCardinality(rows) = Cardinality(accepted)

\* ------------------------------------------------------------------------
\* The ranked index: order of application, ranks, tower heights, spans
\* ------------------------------------------------------------------------
\* the index after upserting (k1, v1) and then (k2, v2)
UpsertTwo(index, k1, v1, k2, v2, h1, h2) ==
    InsertOrUpdate(InsertOrUpdate(index, k1, v1, h1).sl, k2, v2, h2).sl

\* top_k(size) as the clients see it: users and records, best first
TopOrder(index) ==
    LET top == GetTopK(index, GetLength(index))
    IN [i \in 1..Len(top) |-> [Key |-> top[i].Key, Value |-> top[i].Value]]

\* C31: the contents of an index do not depend on the order in which score
\* events are applied: two events applied in either order leave the same
\* stored record for every user and the same top_k order.
CxC31 ==
    \A k1, k2 \in Users, v1, v2 \in Values, h1, h2 \in randomLevel :
       LET forth == UpsertTwo(sl, k1, v1, k2, v2, h1, h2)
           back  == UpsertTwo(sl, k2, v2, k1, v1, h2, h1)
       IN /\ \A u \in Users : Search(forth, u) = Search(back, u)
          /\ TopOrder(forth) = TopOrder(back)

\* C32: for every user of an index, rank(u) is the rank attached to the
\* user's entry in top_k(size).
CxC32 ==
    \A u \in DOMAIN sl.mapIndex :
       \A i \in 1..Len(TopAll) :
          TopAll[i].Key = u => GetRank(sl, u).rank = TopAll[i].Rank

\* ------------------------------------------------------------------------
\* The window leaderboard over time
\* ------------------------------------------------------------------------
WindowedIdx == Windows \ {AllTimeIdx}
\* the larger of two scores
MaxOf(a, b) == IF a > b THEN a ELSE b
\* the best score among a non-empty set of events
BestScore(S) == CHOOSE m \in {e.score : e \in S} : \A e \in S : e.score <= m

\* C33: for a windowed index W and a user with at least one submitted score
\* whose timestamp is inside W at query time, the score reported for the
\* user in W is the best of the user's scores that are inside W at query
\* time: checked for a user that is not yet in W's index, two submissions
\* and a query at the second.
CxC33 ==
    \A w \in WindowedIdx, e1, e2 \in Events, t2 \in Instants, lv \in Heights :
       (/\ e1.user = e2.user
        /\ ~Search(boards[w], e1.user).found
        /\ t2 >= now) =>
          LET first  == Add(boards, e1, now, lv)
              second == Add(first, e2, t2, lv)
              inside == {e \in {e1, e2} : LaterThanHorizon(w, e.timestamp, t2)}
              q      == GetRankAndPercentile(second, e1.user, w)
          IN inside # {} => q.found /\ q.score = BestScore(inside)

\* C33 (amended): the score reported for a user in a windowed index W is the
\* best of the user's scores that were inside W when they were submitted: a
\* submission inside W at that moment leaves the better of the score
\* reported before and the new one, a submission outside W leaves the report
\* as it was, and the passing of time does not change it.
ThmC33 ==
    /\ [](\A w \in WindowedIdx, e \in Events, lv \in Heights :
             LET before == GetRankAndPercentile(boards, e.user, w)
                 after  == GetRankAndPercentile(Add(boards, e, now, lv), e.user, w)
             IN IF LaterThanHorizon(w, e.timestamp, now)
                THEN /\ after.found
                     /\ after.score = IF before.found
                                      THEN MaxOf(before.score, e.score) ELSE e.score
                ELSE after.found = before.found /\ after.score = before.score)
    /\ [][now' # now =>
             \A w \in WindowedIdx, u \in BoardUsers :
                GetRankAndPercentile(boards', u, w).score
                   = GetRankAndPercentile(boards, u, w).score]_vars

\* a user whose record in a windowed index has left the window, and a
\* lower score of that user inside the window whose submission leaves the
\* old score reported
WitC33 ==
    \E w \in WindowedIdx, e \in Events, lv \in Heights :
       LET stored == Search(boards[w], e.user) IN
       /\ stored.found
       /\ ~LaterThanHorizon(w, stored.value.Timestamp, now)
       /\ LaterThanHorizon(w, e.timestamp, now)
       /\ e.score < stored.value.Score
       /\ GetRankAndPercentile(Add(boards, e, now, lv), e.user, w).score = stored.value.Score

\* the users listed by top_k(size) of window w
Listed(gl, w) ==
    LET top == GLGetTopK(gl, TotalPlayers(gl, w), w)
    IN {top[i].UserID : i \in 1..Len(top)}

\* the record of user u in window w's index is older than the window
Stale(gl, w, u, t) ==
    /\ Search(gl[w], u).found
    /\ ~LaterThanHorizon(w, Search(gl[w], u).value.Timestamp, t)

\* C34: without compaction an entry of a windowed index stays in that index
\* after its timestamp has passed the window's horizon: no step removes a
\* user from a windowed index or worsens the user's record, whatever the
\* clock, and rank goes on answering for every user of the index.
ThmC34 ==
    /\ [][\A w \in WindowedIdx, u \in BoardUsers :
             Search(boards[w], u).found =>
                HoldsAtLeast(boards'[w], u, Search(boards[w], u).value)]_vars
    /\ [](\A w \in WindowedIdx, u \in BoardUsers :
             Search(boards[w], u).found =>
                /\ GetRankAndPercentile(boards, u, w).found
                /\ TotalPlayers(boards, w) > 0)

\* a member of the 24h index whose score is older than the window, returned
\* by top_k and by rank
WitC34 ==
    \E u \in BoardUsers :
       /\ Stale(boards, 2, u, now)
       /\ u \in Listed(boards, 2)
       /\ GetRankAndPercentile(boards, u, 2).found
       /\ GetRankAndPercentile(boards, u, 2).score = Search(boards[2], u).value.Score

\* window w2 is at least as long as window w1 (Hours 0 is all time)
AtLeastAsLong(w2, w1) ==
    \/ AllTimeWindows[w2] = 0
    \/ AllTimeWindows[w1] # 0 /\ AllTimeWindows[w1] <= AllTimeWindows[w2]

\* C35: in every state reachable by add_score alone the users of a window's
\* index are users of every longer window's index (24h, 3d, 7d, all time),
\* with a record there at least as good.
ThmC35 ==
    \A w1, w2 \in Windows :
       AtLeastAsLong(w2, w1) =>
          \A u \in BoardUsers :
             Search(boards[w1], u).found =>
                HoldsAtLeast(boards[w2], u, Search(boards[w1], u).value)

\* a user of the 3d index who is not in the 24h index, next to a user whose
\* record in the 7d index is strictly better than the one in the 24h index
WitC35 ==
    /\ \E u \in BoardUsers :
          Search(boards[3], u).found /\ ~Search(boards[2], u).found
    /\ \E u \in BoardUsers :
          /\ Search(boards[2], u).found
          /\ compare(Search(boards[4], u).value, Search(boards[2], u).value) < 0

\* ------------------------------------------------------------------------
\* Lock order
\* ------------------------------------------------------------------------
\* the window locks goroutine p holds
Held(p) == {w \in Windows : lbmu[w] = p}

\* goroutine p, inside a call, can take its next step
CanProceed(p) ==
    \/ ENABLED GetOrCreateUnlock(p)
    \/ ENABLED MapReadReturn(p)
    \/ ENABLED InsertOrUpdateLock(p)
    \/ ENABLED InsertOrUpdateUnlock(p)
    \/ ENABLED WithLeaderboardReturn(p)

\* C36: no interleaving of add_score, top_k, rank, total_players and
\* get_or_create deadlocks: a goroutine holds at most one window lock at a
\* time, holds an index's inner lock only while it holds that window's lock,
\* holds no window lock (and waits for none) while it holds the registry
\* lock, and a goroutine inside a call is never blocked.
ThmC36 ==
    \A p \in Goroutines :
       /\ Cardinality(Held(p)) <= 1
       /\ \A w \in Windows : slmu[w] = p => lbmu[w] = p
       /\ mu = p => Held(p) = {} /\ pc[p].at = "GetOrCreateLeaderboard"
       /\ Held(p) # {} => pc[p].at \in {"Write", "DirtyRead"} /\ Held(p) = {pc[p].arg}
       /\ pc[p] # AtRest => CanProceed(p)

\* one goroutine inside InsertOrUpdate under a window's lock while the other
\* holds the registry lock, and a goroutine reading under another window's lock
WitC36 ==
    \E p \in Goroutines : \E q \in Goroutines \ {p} :
       /\ \E w \in Windows : slmu[w] = p /\ lbmu[w] = p
       /\ mu = q

\* ------------------------------------------------------------------------
\* Close of the producer
\* ------------------------------------------------------------------------
\* C37: Close always terminates, and it returns (having closed the broker
\* writer as its last step) only after the worker has exited.
ThmC37 ==
    /\ [](closing = "returned" => worker = "exited")
    /\ [][(closing # "returned" /\ closing' = "returned") =>
             worker = "exited" /\ worker' = "exited"]_vars
    /\ (closing = "waiting") ~> (closing = "returned")

\* Close has returned after the worker flushed a batch on its way out,
\* with a score still in the queue
WitC37 ==
    /\ closing = "returned"
    /\ worker = "exited"
    /\ written # << >>
    /\ scoreChan # << >>

\* ------------------------------------------------------------------------
\* Range of the percentile
\* ------------------------------------------------------------------------
\* C38: for every user found in an index the percentile (pctNum / pctDen)
\* lies in [0, 100], whatever the size of the index and the user's rank:
\* the rank lies in 1..total.
ThmC38 ==
    \A w \in Windows, u \in BoardUsers :
       LET q == GetRankAndPercentile(boards, u, w) IN
       q.found =>
          /\ q.pctDen > 0
          /\ 0 <= q.pctNum
          /\ q.pctNum <= 100 * q.pctDen
          /\ 1 <= q.rank /\ q.rank <= q.total

\* a single-player index (rank = total = 1) next to an index of two players
\* whose last one has rank = total
WitC38 ==
    /\ \E w \in Windows, u \in BoardUsers :
          LET q == GetRankAndPercentile(boards, u, w) IN
          q.found /\ q.total = 1 /\ q.rank = 1
    /\ \E w \in Windows, u \in BoardUsers :
          LET q == GetRankAndPercentile(boards, u, w) IN
          q.found /\ q.total = 2 /\ q.rank = 2

\* ------------------------------------------------------------------------
\* The ranked index against a plain sorted list
\* ------------------------------------------------------------------------
\* the plain list's users: those with a record, each with its best value
ListUsers == {u \in Users : best[u] # NoValue}
\* the plain list's rank of user u: one plus the users with a better record
ListRank(u) == 1 + Cardinality({w \in ListUsers : compare(best[w], best[u]) < 0})

\* C39: whatever tower heights randomLevel chose, lookup, rank, top_k and
\* size answer as a plain list of the users' best records kept sorted by the
\* comparator does: lookup gives the user's record, size the number of
\* users, rank one plus the number of users with a better record, and
\* top_k(k) the first k users of the list, each once, with its record.
CxC39 ==
    /\ \A u \in Users :
          Search(sl, u) = IF u \in ListUsers
                          THEN [value |-> best[u], found |-> TRUE]
                          ELSE [value |-> [Score |-> 0, Timestamp |-> 0], found |-> FALSE]
    /\ GetLength(sl) = Cardinality(ListUsers)
    /\ \A u \in Users :
          GetRank(sl, u) = IF u \in ListUsers
                           THEN [rank |-> ListRank(u), found |-> TRUE]
                           ELSE [rank |-> 0, found |-> FALSE]
    /\ \A k \in 0..Cardinality(Users) :
          LET top == GetTopK(sl, k) IN
          /\ Len(top) = MinOf(k, Cardinality(ListUsers))
          /\ \A i \in 1..Len(top) :
                /\ top[i].Key \in ListUsers
                /\ top[i].Value = best[top[i].Key]
                /\ ListRank(top[i].Key) <= i
          /\ \A i, j \in 1..Len(top) : i # j => top[i].Key # top[j].Key

\* ------------------------------------------------------------------------
\* Span counters
\* ------------------------------------------------------------------------
\* the position of a node in the base list (the header at 0)
Position(index, n) ==
    IF n = Header THEN 0
    ELSE CHOOSE i \in 1..Len(Linked(index)) : Linked(index)[i] = n

\* the base-level nodes the level-L forward pointer of node n advances over
Advanced(index, n, L) ==
    IF index.nodes[n].Forward[L] = Nil
    THEN Len(Linked(index)) - Position(index, n)
    ELSE Position(index, index.nodes[n].Forward[L]) - Position(index, n)

\* C40: after any sequence of inserts and deletes, for every node of the
\* list, the header included, and every level of the node up to the list's
\* current level, the span is the number of base-level nodes the forward
\* pointer of that level advances over.
ThmC40 ==
    \A n \in {Header} \cup SeqRange(Linked(sl)) :
       \A L \in DOMAIN sl.nodes[n].Forward :
          L <= sl.level => sl.nodes[n].Span[L] = Advanced(sl, n, L)

\* a list of three nodes and two levels in which a pointer of the upper
\* level advances over two nodes and a nil pointer of the upper level has
\* nodes left between it and the end of the list
WitC40 ==
    /\ sl.level = 2
    /\ Len(Linked(sl)) = 3
    /\ \E n \in {Header} \cup SeqRange(Linked(sl)) :
          /\ 2 \in DOMAIN sl.nodes[n].Forward
          /\ sl.nodes[n].Forward[2] # Nil
          /\ sl.nodes[n].Span[2] = 2
    /\ \E n \in SeqRange(Linked(sl)) :
          /\ 2 \in DOMAIN sl.nodes[n].Forward
          /\ sl.nodes[n].Forward[2] = Nil
          /\ sl.nodes[n].Span[2] = 1

====
